---------------------------- MODULE Spec2Model ----------------------------
(***************************************************************************)
(* A model of the avrecode recode engine: the generic binary arithmetic    *)
(* coder (arithmetic_code.h), the scan tables, the splice protocol of the   *)
(* compressor and decompressor, and the predictive model (recode.cpp).      *)
(*                                                                         *)
(* The module holds several specifications over one set of variables; each *)
(* specification drives one part of the engine and leaves the variables of *)
(* the other parts at their initial values.                                *)
(***************************************************************************)
EXTENDS Integers, Naturals, Sequences, FiniteSets, TLC

VARIABLES
  acRatio,    \* sizeof(CompressedDigit) / sizeof(OutputDigit) of the instantiation
  enc,        \* arithmetic_code::encoder: low, range, overflow, out
  acPc,       \* position of the coder's caller: "put", "finished", "finished2", "get", "done"
  bits,       \* the symbols handed to encoder.put so far
  probs,      \* the probability function handed to each put
  dec,        \* arithmetic_code::decoder: low, range, pos, and the symbols returned by get
  tab,        \* the last scan table lookup: the table, the index, and what was read
  original_bytes, \* compressor: the mapped input file
  comp,       \* compressor: read_offset, prev_coded_block_end, out (the envelope being built)
  cenv,       \* the decoder driving the compressor: the spans it announced, its live sub-decoder
  din,        \* decompressor: in, the envelope parsed
  dcm,        \* decompressor: read_index, read_offset, read_block, blocks, marker counter, next_coded_block
  denv,       \* the decoder driving the decompressor: the stream it was handed, its calls, how run ended
  mdl,        \* two h264_model objects, each with the queue of the sub-decoder feeding it
  hook        \* the decoder driving both models: where it is in the slice, what it has called

acVars == <<acRatio, enc, acPc, bits, probs, dec>>
tabVars == <<tab>>
spliceVars == <<original_bytes, comp, cenv, din, dcm, denv>>

modelVars == <<mdl, hook>>

vars == <<acVars, tabVars, spliceVars, modelVars>>

-----------------------------------------------------------------------------
(* Bounds *)

\* Width in bits of the FixedPoint word type (uint64_t in the program).
WordBits == 10
\* Width in bits of the OutputDigit type (uint8_t in the program).
OutDigitBits == 2
\* Number of symbols coded in one run of the coder.
MaxBits == 4
\* Length in bytes of the files given to the compressor.
FileLen == 18
\* The smaller of the sizes read_packet is asked for.
ReadChunk == 7
\* Number of CABAC spans the decoder announces in one run.
MaxSpans == 3
\* Largest frame number the decoder announces.
MaxFrameNum == 2
\* Number of symbols the decoder reads while it drives the models.
MaxSymbols == 4
\* Number of model hook calls the decoder makes.
MaxHooks == 10
RecodeHooks == 13
RecodeSymbols == 6
MaxRangeOffset == 100
\* Number of digits in the encoder's overflow queue up to which puts go on.
MaxQueue == 6
\* Number of hook calls and of symbols of the decoder of the video whose
\* frames change size.
FrameHooks == 11
FrameSymbols == 4
\* Number of hook calls and of symbols of the decoder of the video with spans
\* that are not recoded
SkipHooks == 15
SkipSymbols == 4
\* Bits of the emit coder's word (64 in cabac::fixed_point) and of its
\* compressed digit (16 in cabac::compressed_digit)
EmitWordBits == 24
EmitDigitBits == 8

-----------------------------------------------------------------------------
(* Constants of the program *)

\* CABAC blocks smaller than this will be skipped.
SURROGATE_MARKER_BYTES == 8

-----------------------------------------------------------------------------
(* Integer helpers *)

RECURSIVE Pow2(_)
Pow2(n) == IF n = 0 THEN 1 ELSE 2 * Pow2(n - 1)

\* Unsigned FixedPoint arithmetic wraps modulo 2^WordBits.
WordMod == Pow2(WordBits)
Wrap(x) == x % WordMod

-----------------------------------------------------------------------------
(* arithmetic_code<FixedPoint, CompressedDigit>: constants *)

fixed_one == Pow2(WordBits - 1)
output_digit_base == Pow2(OutDigitBits)
compressed_digit_base(ratio) == Pow2(ratio * OutDigitBits)
min_range(ratio) == (fixed_one \div compressed_digit_base(ratio)) \div 16

\* static_assert(min_range > 1) and static_assert(min_range < fixed_one/compressed_digit_base)
ValidInstantiation(ratio) ==
  /\ min_range(ratio) > 1
  /\ min_range(ratio) < fixed_one \div compressed_digit_base(ratio)


-----------------------------------------------------------------------------
(* arithmetic_code::encoder *)

\* The output digits of one Digit made of n OutputDigits, most significant first.
emit_digit(digit, n) ==
  [i \in 1..n |-> (digit \div Pow2((n - i) * OutDigitBits)) % output_digit_base]

RECURSIVE EmitAll(_, _)
\* Every digit of the overflow queue, each a CompressedDigit, in order.
EmitAll(overflow, ratio) ==
  IF overflow = <<>> THEN <<>>
  ELSE emit_digit(Head(overflow), ratio) \o EmitAll(Tail(overflow), ratio)

RECURSIVE CarryCascade(_, _, _)
\* for (i = overflow.size()-1; i >= 0; i--) if (++overflow[i] != 0) break;
\* i is the 1-based position of the digit to increment.
CarryCascade(overflow, i, ratio) ==
  IF i = 0 THEN overflow
  ELSE LET v == (overflow[i] + 1) % compressed_digit_base(ratio)
           o == [overflow EXCEPT ![i] = v]
       IN IF v # 0 THEN o ELSE CarryCascade(o, i - 1, ratio)

\* The carry check at the head of renormalize_and_emit_digit.
\* carried, lostCarry and carryPast observe it: a carry added into the queue, a
\* carry that found the queue empty, and a carry that ran through every digit of
\* the queue (each of them the largest digit) and so was owed to a digit
\* already emitted.
CarryStep(e, ratio) ==
  IF e.low >= fixed_one
  THEN [e EXCEPT !.overflow = CarryCascade(e.overflow, Len(e.overflow), ratio),
                 !.low = Wrap(e.low - fixed_one),
                 !.carried = e.carried \/ e.overflow # <<>>,
                 !.lostCarry = e.lostCarry \/ e.overflow = <<>>,
                 !.carryPast = e.carryPast
                                 \/ (e.overflow # <<>>
                                      /\ \A i \in 1..Len(e.overflow) :
                                            e.overflow[i] = compressed_digit_base(ratio) - 1)]
  ELSE e

\* renormalize_and_emit_digit<Digit>, Digit made of n OutputDigits.
renormalize_and_emit_digit(e0, ratio, n) ==
  LET digit_base == Pow2(n * OutDigitBits)
      most_significant_digit == fixed_one \div digit_base
      e == CarryStep(e0, ratio)
      digit == (e.low \div most_significant_digit) % digit_base
      top == (Wrap(e.low + e.range - 1) \div most_significant_digit) % digit_base
      q == IF digit # top
           THEN [e EXCEPT !.overflow = Append(e.overflow, digit)]
           ELSE [e EXCEPT !.out = e.out \o EmitAll(e.overflow, ratio) \o emit_digit(digit, n),
                          !.overflow = <<>>]
      low_asserted == e.low < fixed_one
      range_asserted == digit # top => e.range < most_significant_digit
      wrapped == \/ e.low + e.range - 1 >= WordMod
                 \/ (e.low - digit * most_significant_digit) * digit_base >= WordMod
                 \/ e.range * digit_base >= WordMod
  IN \* assert(range < most_significant_digit) on the deferring branch: a build
     \* with assertions aborts there, a build without them goes on.
     \* low_asserted and range_asserted observe the two assertions in either
     \* build, wrapped a result that did not fit the word.
     IF digit # top /\ ~(e.range < most_significant_digit) /\ e.asserts
     THEN [e EXCEPT !.aborted = TRUE, !.range_asserted = FALSE]
     ELSE [q EXCEPT !.low = Wrap(Wrap(e.low - digit * most_significant_digit) * digit_base),
                    !.range = Wrap(e.range * digit_base),
                    !.low_asserted = @ /\ low_asserted,
                    !.range_asserted = @ /\ range_asserted,
                    !.wrapped = @ \/ wrapped]

RECURSIVE PutLoop(_, _, _)
\* while (range < min_range) renormalize_and_emit_digit<CompressedDigit>();
\* stuck observes a loop that has not ended after more rounds than the word has bits.
PutLoop(e, ratio, fuel) ==
  IF e.range >= min_range(ratio) \/ e.aborted THEN e
  ELSE IF fuel = 0 THEN [e EXCEPT !.stuck = TRUE]
  ELSE PutLoop(renormalize_and_emit_digit(e, ratio, ratio), ratio, fuel - 1)

\* put as it would be with `if (range < min_range)` in place of the while loop.
put_RenormalizeOnce(e, ratio, symbol, range_of_1) ==
  LET range_of_0 == Wrap(e.range - range_of_1)
      s == IF symbol # 0
           THEN [e EXCEPT !.low = Wrap(e.low + range_of_0), !.range = range_of_1]
           ELSE [e EXCEPT !.range = range_of_0]
  IN IF s.range < min_range(ratio) THEN renormalize_and_emit_digit(s, ratio, ratio) ELSE s

\* encoder::put(symbol, probability_of_1), range_of_1 being probability_of_1(range).
put(e, ratio, symbol, range_of_1) ==
  LET range_of_0 == Wrap(e.range - range_of_1)
      s == IF symbol # 0
           THEN [e EXCEPT !.low = Wrap(e.low + range_of_0), !.range = range_of_1,
                          !.wrapped = @ \/ e.low + range_of_0 >= WordMod]
           ELSE [e EXCEPT !.range = range_of_0]
  IN PutLoop(s, ratio, WordBits + 1)

\* (low | stop_bit) & ~(stop_bit - 1), stop_bit a power of two.
StopCandidate(low, stop_bit) ==
  LET y == IF (low \div stop_bit) % 2 = 1 THEN low ELSE low + stop_bit
  IN y - (y % stop_bit)

RECURSIVE StopBitLoop(_, _)
\* for (stop_bit = fixed_one >> 1; stop_bit > 0; stop_bit >>= 1) ...: the low chosen.
StopBitLoop(e, stop_bit) ==
  IF stop_bit = 0 THEN e.low
  ELSE LET x == StopCandidate(e.low, stop_bit)
       IN IF stop_bit < e.range /\ e.low <= x /\ x < Wrap(e.low + e.range)
          THEN x
          ELSE StopBitLoop(e, stop_bit \div 2)

RECURSIVE FinishLoop(_, _, _)
\* while (low != 0) renormalize_and_emit_digit<OutputDigit>();
FinishLoop(e, ratio, fuel) ==
  IF e.low = 0 \/ e.aborted THEN e
  ELSE IF fuel = 0 THEN [e EXCEPT !.stuck = TRUE]
  ELSE FinishLoop(renormalize_and_emit_digit(e, ratio, 1), ratio, fuel - 1)

\* encoder::finish()
finish(e, ratio) ==
  FinishLoop([e EXCEPT !.low = StopBitLoop(e, fixed_one \div 2), !.range = 1],
             ratio, WordBits + 1)

\* A freshly constructed encoder, in a build with assertions or without (NDEBUG).
NewEncoder(asserts) ==
  [low |-> 0, range |-> fixed_one, overflow |-> <<>>, out |-> <<>>,
   asserts |-> asserts, aborted |-> FALSE,
   stuck |-> FALSE, carried |-> FALSE, lostCarry |-> FALSE, carryPast |-> FALSE,
   low_asserted |-> TRUE, range_asserted |-> TRUE, wrapped |-> FALSE]

-----------------------------------------------------------------------------
(* arithmetic_code::decoder *)

\* Bit j (1-based, most significant first) of the digit stream; 0 past its end.
StreamBit(stream, j) ==
  LET d == ((j - 1) \div OutDigitBits) + 1
      o == (j - 1) % OutDigitBits
  IN IF d > Len(stream) THEN 0
     ELSE (stream[d] \div Pow2(OutDigitBits - 1 - o)) % 2

RECURSIVE StreamBits(_, _, _)
\* The number spelled by the n bits of the stream that follow bit `from`.
StreamBits(stream, from, n) ==
  IF n = 0 THEN 0
  ELSE 2 * StreamBits(stream, from, n - 1) + StreamBit(stream, from + n)

\* A decoder over a digit stream: the shift register holds the stream's first
\* WordBits-1 bits, aligned with the encoder's low.
NewDecoder(stream) ==
  [low |-> 0, range |-> fixed_one, value |-> StreamBits(stream, 0, WordBits - 1),
   pos |-> WordBits - 1, syms |-> <<>>]

\* Pull one CompressedDigit into the shift register and renormalise.
renormalize_and_consume_digit(d0, ratio, stream) ==
  LET n == ratio * OutDigitBits
      base == compressed_digit_base(ratio)
      most_significant_digit == fixed_one \div base
      d == IF d0.low >= fixed_one
           THEN [d0 EXCEPT !.low = d0.low - fixed_one, !.value = d0.value - fixed_one]
           ELSE d0
      digit == d.low \div most_significant_digit
  IN [d EXCEPT !.low = (d.low - digit * most_significant_digit) * base,
               !.value = (d.value - digit * most_significant_digit) * base
                           + StreamBits(stream, d.pos, n),
               !.range = d.range * base,
               !.pos = d.pos + n]

RECURSIVE GetLoop(_, _, _, _)
GetLoop(d, ratio, stream, fuel) ==
  IF d.range >= min_range(ratio) \/ fuel = 0 THEN d
  ELSE GetLoop(renormalize_and_consume_digit(d, ratio, stream), ratio, stream, fuel - 1)

\* decoder::get(probability_of_1), range_of_1 being probability_of_1(range).
get(d, ratio, stream, range_of_1) ==
  LET range_of_0 == d.range - range_of_1
      symbol == IF d.value - d.low >= range_of_0 THEN 1 ELSE 0
      s == IF symbol # 0
           THEN [d EXCEPT !.low = d.low + range_of_0, !.range = range_of_1,
                          !.syms = Append(d.syms, symbol)]
           ELSE [d EXCEPT !.range = range_of_0, !.syms = Append(d.syms, symbol)]
  IN GetLoop(s, ratio, stream, WordBits + 1)

-----------------------------------------------------------------------------
(* Probability functions handed to put and get *)

\* h264_model::probability_for_model_key for an estimator (pos, neg).
probability_for_model_key(range, pos, neg) == (range \div (pos + neg)) * pos

\* The probability functions a caller draws from: estimator splits (1,1 is the
\* test's range/2), and the extreme shares 1 and range - 1.
ProbFns ==
  { [kind |-> "estimator", pos |-> 1, neg |-> 1],
    [kind |-> "estimator", pos |-> 1, neg |-> 16],
    [kind |-> "estimator", pos |-> 3, neg |-> 1],
    [kind |-> "least", pos |-> 0, neg |-> 0],
    [kind |-> "most", pos |-> 0, neg |-> 0] }

probability_of_1(p, range) ==
  CASE p.kind = "estimator" -> probability_for_model_key(range, p.pos, p.neg)
    [] p.kind = "least" -> 1
    [] p.kind = "most" -> range - 1

-----------------------------------------------------------------------------
(* cabac::encoder, the emit coder of the decompress path *)

\* cabac::min_range: 0x200, so that range/2 never rounds in put_bypass.
cabac_min_range == 512

\* arithmetic_code<fixed_point, compressed_digit, min_range>::compressed_digit_base
cabac_compressed_digit_base == Pow2(EmitDigitBits)

\* The LPS range table of the H.264 standard, rangeTabLPS[pStateIdx][qCodIRangeIdx].
rangeTabLPS ==
  <<
    <<128, 176, 208, 240>>, <<128, 167, 197, 227>>, <<128, 158, 187, 216>>, <<123, 150, 178, 205>>,
    <<116, 142, 169, 195>>, <<111, 135, 160, 185>>, <<105, 128, 152, 175>>, <<100, 122, 144, 166>>,
    <<95, 116, 137, 158>>, <<90, 110, 130, 150>>, <<85, 104, 123, 142>>, <<81, 99, 117, 135>>,
    <<77, 94, 111, 128>>, <<73, 89, 105, 122>>, <<69, 85, 100, 116>>, <<66, 80, 95, 110>>,
    <<62, 76, 90, 104>>, <<59, 72, 86, 99>>, <<56, 69, 81, 94>>, <<53, 65, 77, 89>>,
    <<51, 62, 73, 85>>, <<48, 59, 69, 80>>, <<46, 56, 66, 76>>, <<43, 53, 63, 72>>,
    <<41, 50, 59, 69>>, <<39, 48, 56, 65>>, <<37, 45, 54, 62>>, <<35, 43, 51, 59>>,
    <<33, 41, 48, 56>>, <<32, 39, 46, 53>>, <<30, 37, 43, 50>>, <<29, 35, 41, 48>>,
    <<27, 33, 39, 45>>, <<26, 31, 37, 43>>, <<24, 30, 35, 41>>, <<23, 28, 33, 39>>,
    <<22, 27, 32, 37>>, <<21, 26, 30, 35>>, <<20, 24, 29, 33>>, <<19, 23, 27, 31>>,
    <<18, 22, 26, 30>>, <<17, 21, 25, 28>>, <<16, 20, 23, 27>>, <<15, 19, 22, 25>>,
    <<14, 18, 21, 24>>, <<14, 17, 20, 23>>, <<13, 16, 19, 22>>, <<12, 15, 18, 21>>,
    <<12, 14, 17, 20>>, <<11, 14, 16, 19>>, <<11, 13, 15, 18>>, <<10, 12, 15, 17>>,
    <<10, 12, 14, 16>>, <<9, 11, 13, 15>>, <<9, 11, 12, 14>>, <<8, 10, 12, 14>>,
    <<8, 9, 11, 13>>, <<7, 9, 11, 12>>, <<7, 9, 10, 12>>, <<7, 8, 10, 11>>,
    <<6, 8, 9, 11>>, <<6, 7, 9, 10>>, <<6, 7, 8, 9>>, <<2, 2, 2, 2>>
  >>

\* ff_h264_lps_range[index]: the table laid out by range quarter, then by state
\* byte, a state byte being twice the state index plus the more probable symbol.
ff_h264_lps_range(index) == rangeTabLPS[((index % 128) \div 2) + 1][(index \div 128) + 1]

RECURSIVE log2(_)
\* cabac::encoder::log2(x)
log2(x) == IF x \div 2 = 0 THEN 0 ELSE 1 + log2(x \div 2)

\* The encoder e of a cabac::encoder as constructed: range = 0x1FE shifted to
\* the top ten bits of the word.  stuck tells that a put never returned.
NewCabacEncoder == [range |-> 510 * Pow2(EmitWordBits - 10), stuck |-> FALSE]

RECURSIVE CabacRenormalize(_, _, _)
\* while (range < min_range) renormalize_and_emit_digit<CompressedDigit>(),
\* for what it does to range.
CabacRenormalize(range, min, fuel) ==
  IF range >= min THEN [range |-> range, stuck |-> FALSE]
  ELSE IF fuel = 0 THEN [range |-> range, stuck |-> TRUE]
  ELSE CabacRenormalize((range * cabac_compressed_digit_base) % Pow2(EmitWordBits), min, fuel - 1)

\* e.put as it would be if the encoder renormalised below 0x100 only.
cabac_e_put_LowMinRange(e, symbol, range_of_1) ==
  LET range_of_0 == (e.range - range_of_1) % Pow2(EmitWordBits)
  IN CabacRenormalize(IF symbol # 0 THEN range_of_1 ELSE range_of_0,
                      cabac_min_range \div 2, EmitWordBits)

\* e.put(symbol, probability_of_1) of the encoder inside cabac::encoder, for
\* what it does to range; low, the overflow queue and the digits emitted are
\* those of arithmetic_code::encoder above and do not bear on range.
cabac_e_put(e, symbol, range_of_1) ==
  LET range_of_0 == (e.range - range_of_1) % Pow2(EmitWordBits)
  IN CabacRenormalize(IF symbol # 0 THEN range_of_1 ELSE range_of_0,
                      cabac_min_range, EmitWordBits)

\* range >> (normalize-1) in put: a shift by a negative count is undefined, and
\* gives the range unshifted, or zero.
RangeApprox(range) ==
  LET normalize == log2(range \div 256)
  IN IF normalize >= 1 THEN {range \div Pow2(normalize - 1)} ELSE {range, 0}

\* The lambda of cabac::encoder::put: the range of the less probable symbol.
range_of_less_probable_symbol(range, state, range_approx) ==
  ff_h264_lps_range(((range_approx \div 128) % 4) * 128 + state)
    * Pow2(log2(range \div 256))

\* cabac::encoder::put(symbol, state); the state byte is the decoder's.
cabac_put(e, symbol, state, range_approx) ==
  cabac_e_put(e, IF symbol # state % 2 THEN 1 ELSE 0,
              range_of_less_probable_symbol(e.range, state, range_approx))

\* cabac::encoder::put_bypass(symbol)
cabac_put_bypass(e, symbol) == cabac_e_put(e, symbol, e.range \div 2)

\* cabac::encoder::put_terminate(end_of_stream_symbol)
cabac_put_terminate(e, end_of_stream_symbol) ==
  cabac_e_put(e, end_of_stream_symbol, 2 * Pow2(log2(e.range \div 256)))

-----------------------------------------------------------------------------
(* Scan tables *)

\* The tables are indexed from 0, as the program's arrays are.

\* scan_8 with the chroma V DC entry one row up, on the cell marked as an upper neighbour.
scan_8_Moved ==
  LET t == <<12, 13, 20, 21,
            14, 15, 22, 23,
            28, 29, 36, 37,
            30, 31, 38, 39,
            52, 53, 60, 61,
            54, 55, 62, 63,
            68, 69, 76, 77,
            70, 71, 78, 79,
            92, 93, 100, 101,
            94, 95, 102, 103,
            108, 109, 116, 117,
            110, 111, 118, 119,
            0, 40, 72>>
  IN [i \in 0..50 |-> t[i + 1]]

\* scan_8[16 * 3 + 3]: scan8 index to its cell (column + 8 * row) of the 8-wide grid.
scan_8 ==
  LET t == <<12, 13, 20, 21,
            14, 15, 22, 23,
            28, 29, 36, 37,
            30, 31, 38, 39,
            52, 53, 60, 61,
            54, 55, 62, 63,
            68, 69, 76, 77,
            70, 71, 78, 79,
            92, 93, 100, 101,
            94, 95, 102, 103,
            108, 109, 116, 117,
            110, 111, 118, 119,
            0, 40, 80>>
  IN [i \in 0..50 |-> t[i + 1]]

\* r_scan8::inv()
r_scan8_inv == [scan8_index |-> 0, neighbor_left |-> TRUE, neighbor_up |-> TRUE]

\* r_scan8 {scan8_index, neighbor_left, neighbor_up}
R8(scan8_index, neighbor_left, neighbor_up) ==
  [scan8_index |-> scan8_index, neighbor_left |-> neighbor_left, neighbor_up |-> neighbor_up]

\* reverse_scan_8[15][8]: cell (row, column) to the scan8 index stored there.
reverse_scan_8 ==
  LET t == <<
         <<R8(48, FALSE, FALSE), r_scan8_inv, r_scan8_inv, R8(15, TRUE, TRUE),
           R8(10, FALSE, TRUE), R8(11, FALSE, TRUE), R8(14, FALSE, TRUE), R8(15, FALSE, TRUE)>>,
         <<r_scan8_inv, r_scan8_inv, r_scan8_inv, R8(5, TRUE, FALSE),
           R8(0, FALSE, FALSE), R8(1, FALSE, FALSE), R8(4, FALSE, FALSE), R8(5, FALSE, FALSE)>>,
         <<r_scan8_inv, r_scan8_inv, r_scan8_inv, R8(7, TRUE, FALSE),
           R8(2, FALSE, FALSE), R8(3, FALSE, FALSE), R8(6, FALSE, FALSE), R8(7, FALSE, FALSE)>>,
         <<r_scan8_inv, r_scan8_inv, r_scan8_inv, R8(13, TRUE, FALSE),
           R8(8, FALSE, FALSE), R8(9, FALSE, FALSE), R8(12, FALSE, FALSE), R8(13, FALSE, FALSE)>>,
         <<R8(49, FALSE, TRUE), r_scan8_inv, r_scan8_inv, R8(15, TRUE, FALSE),
           R8(10, FALSE, FALSE), R8(11, FALSE, FALSE), R8(14, FALSE, FALSE), R8(15, FALSE, FALSE)>>,
         <<R8(49, FALSE, FALSE), r_scan8_inv, r_scan8_inv, R8(31, TRUE, TRUE),
           R8(26, FALSE, TRUE), R8(27, FALSE, TRUE), R8(30, FALSE, TRUE), R8(31, FALSE, TRUE)>>,
         <<r_scan8_inv, r_scan8_inv, r_scan8_inv, R8(21, TRUE, FALSE),
           R8(16, FALSE, FALSE), R8(17, FALSE, FALSE), R8(20, FALSE, FALSE), R8(21, FALSE, FALSE)>>,
         <<r_scan8_inv, r_scan8_inv, r_scan8_inv, R8(23, TRUE, FALSE),
           R8(18, FALSE, FALSE), R8(19, FALSE, FALSE), R8(22, FALSE, FALSE), R8(23, FALSE, FALSE)>>,
         <<r_scan8_inv, r_scan8_inv, r_scan8_inv, R8(29, TRUE, FALSE),
           R8(24, FALSE, FALSE), R8(25, FALSE, FALSE), R8(28, FALSE, FALSE), R8(29, FALSE, FALSE)>>,
         <<R8(50, FALSE, TRUE), r_scan8_inv, r_scan8_inv, R8(31, TRUE, FALSE),
           R8(26, FALSE, FALSE), R8(27, FALSE, FALSE), R8(30, FALSE, FALSE), R8(31, FALSE, FALSE)>>,
         <<R8(50, FALSE, FALSE), r_scan8_inv, r_scan8_inv, R8(47, TRUE, TRUE),
           R8(42, FALSE, TRUE), R8(43, FALSE, TRUE), R8(46, FALSE, TRUE), R8(47, FALSE, TRUE)>>,
         <<r_scan8_inv, r_scan8_inv, r_scan8_inv, R8(37, TRUE, FALSE),
           R8(32, FALSE, FALSE), R8(33, FALSE, FALSE), R8(36, FALSE, FALSE), R8(37, FALSE, FALSE)>>,
         <<r_scan8_inv, r_scan8_inv, r_scan8_inv, R8(39, TRUE, FALSE),
           R8(34, FALSE, FALSE), R8(35, FALSE, FALSE), R8(38, FALSE, FALSE), R8(39, FALSE, FALSE)>>,
         <<r_scan8_inv, r_scan8_inv, r_scan8_inv, R8(45, TRUE, FALSE),
           R8(40, FALSE, FALSE), R8(41, FALSE, FALSE), R8(44, FALSE, FALSE), R8(45, FALSE, FALSE)>>,
         <<R8(81, FALSE, TRUE), r_scan8_inv, r_scan8_inv, R8(47, TRUE, FALSE),
           R8(42, FALSE, FALSE), R8(43, FALSE, FALSE), R8(46, FALSE, FALSE), R8(47, FALSE, FALSE)>> >>
  IN [row \in 0..14 |-> [col \in 0..7 |-> t[row + 1][col + 1]]]

\* zigzag4[4]
zigzag4 ==
  LET t == <<0, 1, 2, 3>>
  IN [i \in 0..3 |-> t[i + 1]]

\* unzigzag4[4]
unzigzag4 ==
  LET t == <<0, 1, 2, 3>>
  IN [i \in 0..3 |-> t[i + 1]]

\* unzigzag16[16]
unzigzag16 ==
  LET t == <<0, 1, 4, 8,
            5, 2, 3, 6,
            9, 12, 13, 10,
            7, 11, 14, 15>>
  IN [i \in 0..15 |-> t[i + 1]]

\* zigzag16[16]
zigzag16 ==
  LET t == <<0, 1, 5, 6,
            2, 4, 7, 12,
            3, 8, 11, 13,
            9, 10, 14, 15>>
  IN [i \in 0..15 |-> t[i + 1]]

\* unzigzag64[64]
unzigzag64 ==
  LET t == <<0, 1, 8, 16, 9, 2, 3, 10,
            17, 24, 32, 25, 18, 11, 4, 5,
            12, 19, 26, 33, 40, 48, 41, 34,
            27, 20, 13, 6, 7, 14, 21, 28,
            35, 42, 49, 56, 57, 50, 43, 36,
            29, 22, 15, 23, 30, 37, 44, 51,
            58, 59, 52, 45, 38, 31, 39, 46,
            53, 60, 61, 54, 47, 55, 62, 63>>
  IN [i \in 0..63 |-> t[i + 1]]

\* zigzag64[64]
zigzag64 ==
  LET t == <<0, 1, 5, 6, 14, 15, 27, 28,
            2, 4, 7, 13, 16, 26, 29, 42,
            3, 8, 12, 17, 25, 30, 41, 43,
            9, 11, 18, 24, 31, 40, 44, 53,
            10, 19, 23, 32, 39, 45, 52, 54,
            20, 22, 33, 38, 46, 51, 55, 60,
            21, 34, 37, 47, 50, 56, 59, 61,
            35, 36, 48, 49, 57, 58, 62, 63>>
  IN [i \in 0..63 |-> t[i + 1]]

-----------------------------------------------------------------------------
(* Byte strings and the blocks of the envelope *)

\* The n bytes of a byte string that start at offset off; offsets count from 0.
Sub(bytes, off, n) == SubSeq(bytes, off + 1, off + n)

Min2(a, b) == IF a < b THEN a ELSE b

\* An optional field of a Recoded::Block: not set, or set to one value.
None == <<>>
Some(v) == <<v>>
Has(field) == field # <<>>
ValueOf(field) == field[1]

\* A Recoded::Block with no field set, as add_block() returns it.
EmptyBlock ==
  [literal |-> None, cabac |-> None, skip_coded |-> None,
   size |-> None, length_parity |-> None, last_byte |-> None]

\* block.size(): the field's value, 0 when it is not set.
SizeOf(block) == IF Has(block.size) THEN ValueOf(block.size) ELSE 0

-----------------------------------------------------------------------------
(* compressor *)

\* memmem(&haystack[from], to - from, needle, Len(needle)): the offset of the
\* first occurrence of needle that lies within [from, to), -1 for NULL.
memmem(haystack, from, to, needle) ==
  LET hits == {p \in from..(to - Len(needle)) : Sub(haystack, p, Len(needle)) = needle}
  IN IF hits = {} THEN -1 ELSE CHOOSE p \in hits : \A r \in hits : p <= r

\* The compressor's fields after construction.
NewCompressor == [read_offset |-> 0, prev_coded_block_end |-> 0, out |-> <<>>]

\* compressor::read_packet(buffer_out, size)
compressor_read_packet(c, original, size) ==
  [c EXCEPT !.read_offset = @ + Min2(size, Len(original) - c.read_offset)]

\* find_next_coded_block_and_emit_literal recoding every span that is found,
\* whatever its size.
find_next_coded_block_and_emit_literal_AnySize(c, original, buf, size) ==
  LET found == memmem(original, c.prev_coded_block_end, c.read_offset, buf)
  IN IF found # -1
     THEN LET gap == found - c.prev_coded_block_end
              literal == [EmptyBlock EXCEPT
                            !.literal = Some(Sub(original, c.prev_coded_block_end, gap))]
              newBlock == [EmptyBlock EXCEPT
                             !.length_parity = Some(size % 2),
                             !.last_byte = IF size > 1 THEN Some(<<buf[size]>>) ELSE None]
          IN [c |-> [c EXCEPT !.out = @ \o <<literal, newBlock>>,
                              !.prev_coded_block_end = @ + gap + size],
              recode |-> TRUE, found |-> found]
     ELSE [c |-> [c EXCEPT !.out = Append(@, [EmptyBlock EXCEPT
                                                !.skip_coded = Some(TRUE),
                                                !.size = Some(size)])],
           recode |-> FALSE, found |-> found]

\* compressor::find_next_coded_block_and_emit_literal(buf, size); buf holds size
\* bytes.  found is the offset of the match, recode tells whether a block was
\* returned for the recoder to fill.
find_next_coded_block_and_emit_literal(c, original, buf, size) ==
  LET found == memmem(original, c.prev_coded_block_end, c.read_offset, buf)
  IN IF found # -1 /\ size >= SURROGATE_MARKER_BYTES
     THEN LET gap == found - c.prev_coded_block_end
              literal == [EmptyBlock EXCEPT
                            !.literal = Some(Sub(original, c.prev_coded_block_end, gap))]
              newBlock == [EmptyBlock EXCEPT
                             !.length_parity = Some(size % 2),
                             !.last_byte = IF size > 1 THEN Some(<<buf[size]>>) ELSE None]
          IN [c |-> [c EXCEPT !.out = @ \o <<literal, newBlock>>,
                              !.prev_coded_block_end = @ + gap + size],
              recode |-> TRUE, found |-> found]
     ELSE [c |-> [c EXCEPT !.out = Append(@, [EmptyBlock EXCEPT
                                                !.skip_coded = Some(TRUE),
                                                !.size = Some(size)])],
           recode |-> FALSE, found |-> found]

\* compressor::cabac_decoder::cabac_decoder(c, ctx_in, buf, size).  out is the
\* index in c.out of the block the sub-decoder fills, 0 for nullptr.
compressor_cabac_decoder(c, original, buf, size) ==
  LET r == find_next_coded_block_and_emit_literal(c, original, buf, size)
  IN IF ~r.recode
     THEN [c |-> r.c, out |-> 0, found |-> r.found]
     ELSE [c |-> [r.c EXCEPT !.out[Len(r.c.out)].size = Some(size)],
           out |-> Len(r.c.out), found |-> r.found]

\* h264_symbol::execute on the terminate symbol: encoder.finish() and
\* out->set_cabac(encoder_out).  The recoded payload is stood for by the bytes
\* of the span whose symbols it codes.
set_cabac(c, out, payload) == [c EXCEPT !.out[out].cabac = Some(payload)]

\* compressor::run without the final literal block.
compressor_run_NoFinalLiteral(c, original) == c

\* compressor::run after decode_video: the final literal block.
compressor_run(c, original) ==
  [c EXCEPT !.out = Append(@, [EmptyBlock EXCEPT
       !.literal = Some(Sub(original, c.prev_coded_block_end,
                            Len(original) - c.prev_coded_block_end))])]

-----------------------------------------------------------------------------
(* The H.264 decoder's view of the bytes it is handed *)

\* The byte at offset i is an emulation prevention byte: a 3 after two zeros.
IsEscapeByte(bytes, i) ==
  /\ i >= 2
  /\ i < Len(bytes)
  /\ bytes[i + 1] = 3
  /\ bytes[i] = 0
  /\ bytes[i - 1] = 0

\* The buffer init_cabac_decoder is given for the span stored at [q, q + len):
\* the stored bytes with the emulation prevention bytes taken out.
SpanBuf(bytes, q, len) ==
  LET offsets == [k \in 1..len |-> q + k - 1]
      kept == SelectSeq(offsets, LAMBDA i : ~IsEscapeByte(bytes, i))
  IN [k \in 1..Len(kept) |-> bytes[kept[k] + 1]]

\* Where the last span announced so far ends.
SpanEnd(spans) ==
  IF spans = <<>> THEN 0 ELSE spans[Len(spans)].q + spans[Len(spans)].len

-----------------------------------------------------------------------------
(* decompressor *)

\* decompressor::block_state as resize() makes it.  last_byte has no initialiser;
\* it is read only after length_parity and last_byte have been set together.
NewBlockState ==
  [coded |-> FALSE, surrogate_marker |-> <<>>, out_bytes |-> <<>>,
   done |-> FALSE, length_parity |-> -1, last_byte |-> 0]

\* The decompressor's fields when run() has resized blocks.
NewDecompressor(in) ==
  [read_index |-> 0, read_offset |-> 0, read_block |-> <<>>,
   blocks |-> [i \in 1..Len(in) |-> NewBlockState],
   surrogate_marker_sequence_number |-> 1, next_coded_block |-> 0]

RECURSIVE Div255(_, _)
\* n / 255^k
Div255(n, k) == IF k = 0 THEN n ELSE Div255(n \div 255, k - 1)

\* next_surrogate_marker() as it would be with digits 0..254.
surrogate_marker_of_ZeroDigits(n) ==
  [i \in 1..SURROGATE_MARKER_BYTES |-> Div255(n, i - 1) % 255]

\* The marker next_surrogate_marker() makes of sequence number n.
surrogate_marker_of(n) ==
  [i \in 1..SURROGATE_MARKER_BYTES |-> (Div255(n, i - 1) % 255) + 1]

\* decompressor::make_surrogate_block(surrogate_marker, size), 'X' being 88.
make_surrogate_block(surrogate_marker, size) ==
  IF size < Len(surrogate_marker)
  THEN [error |-> "Invalid coded block size for surrogate", block |-> <<>>]
  ELSE [error |-> "",
        block |-> surrogate_marker \o [i \in 1..(size - Len(surrogate_marker)) |-> 88]]

\* LoadBlock as it would be if it took skip_coded for set whenever it is present.
LoadBlock_AnySkip(in, d) ==
  LET idx == d.read_index + 1
      block == in[idx]
      variants == (IF Has(block.literal) THEN 1 ELSE 0) + (IF Has(block.cabac) THEN 1 ELSE 0)
                    + (IF Has(block.skip_coded) THEN 1 ELSE 0)
  IN IF variants # 1
     THEN [d |-> d, error |-> "Invalid input block: must have exactly one type"]
     ELSE IF Has(block.literal)
     THEN [d |-> [d EXCEPT !.blocks[idx].out_bytes = ValueOf(block.literal),
                           !.blocks[idx].done = TRUE,
                           !.read_block = ValueOf(block.literal)],
           error |-> ""]
     ELSE IF Has(block.cabac)
     THEN LET marker == surrogate_marker_of(d.surrogate_marker_sequence_number)
              d1 == [d EXCEPT !.blocks[idx].coded = TRUE,
                              !.blocks[idx].surrogate_marker = marker,
                              !.surrogate_marker_sequence_number = @ + 1,
                              !.blocks[idx].done = FALSE]
              d2 == IF Has(block.length_parity) /\ Has(block.last_byte)
                       /\ ValueOf(block.last_byte) # <<>>
                    THEN [d1 EXCEPT !.blocks[idx].length_parity = ValueOf(block.length_parity),
                                    !.blocks[idx].last_byte = ValueOf(block.last_byte)[1]]
                    ELSE d1
              surrogate == make_surrogate_block(marker, SizeOf(block))
          IN IF ~Has(block.size)
             THEN [d |-> d1, error |-> "CABAC block requires size field."]
             ELSE IF surrogate.error # ""
             THEN [d |-> d2, error |-> surrogate.error]
             ELSE [d |-> [d2 EXCEPT !.read_block = surrogate.block], error |-> ""]
     ELSE IF Has(block.skip_coded)
     THEN [d |-> [d EXCEPT !.blocks[idx].coded = TRUE, !.blocks[idx].done = TRUE],
           error |-> ""]
     ELSE [d |-> d, error |-> "Unknown input block type"]

\* The branch of read_packet that takes up block read_index of the envelope.
LoadBlock(in, d) ==
  LET idx == d.read_index + 1
      block == in[idx]
      variants == (IF Has(block.literal) THEN 1 ELSE 0) + (IF Has(block.cabac) THEN 1 ELSE 0)
                    + (IF Has(block.skip_coded) THEN 1 ELSE 0)
  IN IF variants # 1
     THEN [d |-> d, error |-> "Invalid input block: must have exactly one type"]
     ELSE IF Has(block.literal)
     THEN [d |-> [d EXCEPT !.blocks[idx].out_bytes = ValueOf(block.literal),
                           !.blocks[idx].done = TRUE,
                           !.read_block = ValueOf(block.literal)],
           error |-> ""]
     ELSE IF Has(block.cabac)
     THEN LET marker == surrogate_marker_of(d.surrogate_marker_sequence_number)
              d1 == [d EXCEPT !.blocks[idx].coded = TRUE,
                              !.blocks[idx].surrogate_marker = marker,
                              !.surrogate_marker_sequence_number = @ + 1,
                              !.blocks[idx].done = FALSE]
              d2 == IF Has(block.length_parity) /\ Has(block.last_byte)
                       /\ ValueOf(block.last_byte) # <<>>
                    THEN [d1 EXCEPT !.blocks[idx].length_parity = ValueOf(block.length_parity),
                                    !.blocks[idx].last_byte = ValueOf(block.last_byte)[1]]
                    ELSE d1
              surrogate == make_surrogate_block(marker, SizeOf(block))
          IN IF ~Has(block.size)
             THEN [d |-> d1, error |-> "CABAC block requires size field."]
             ELSE IF surrogate.error # ""
             THEN [d |-> d2, error |-> surrogate.error]
             ELSE [d |-> [d2 EXCEPT !.read_block = surrogate.block], error |-> ""]
     ELSE IF Has(block.skip_coded) /\ ValueOf(block.skip_coded)
     THEN [d |-> [d EXCEPT !.blocks[idx].coded = TRUE, !.blocks[idx].done = TRUE],
           error |-> ""]
     ELSE [d |-> d, error |-> "Unknown input block type"]

RECURSIVE ReadLoop(_, _, _, _)
\* while (size > 0 && read_index < in.block_size()) of read_packet; bytes is what
\* has been copied to the buffer.
ReadLoop(in, d, size, bytes) ==
  IF ~(size > 0 /\ d.read_index < Len(in))
  THEN [d |-> d, bytes |-> bytes, error |-> ""]
  ELSE LET loaded == IF d.read_block = <<>> THEN LoadBlock(in, d)
                     ELSE [d |-> d, error |-> ""]
       IN IF loaded.error # ""
          THEN [d |-> loaded.d, bytes |-> bytes, error |-> loaded.error]
          ELSE LET d1 == loaded.d
                   n == IF d1.read_offset < Len(d1.read_block)
                        THEN Min2(size, Len(d1.read_block) - d1.read_offset)
                        ELSE 0
                   d2 == [d1 EXCEPT !.read_offset = @ + n]
                   d3 == IF d2.read_offset >= Len(d2.read_block)
                         THEN [d2 EXCEPT !.read_block = <<>>,
                                         !.read_offset = 0,
                                         !.read_index = @ + 1]
                         ELSE d2
               IN ReadLoop(in, d3, size - n, bytes \o Sub(d1.read_block, d1.read_offset, n))

\* read_packet as it would be if a call went no further than the block it
\* starts in.
decompressor_read_packet_OneBlock(in, d, size) ==
  ReadLoop(in, d, IF d.read_block = <<>> THEN Min2(size, 1)
                  ELSE Min2(size, Len(d.read_block) - d.read_offset), <<>>)

\* decompressor::read_packet(buffer_out, size)
decompressor_read_packet(in, d, size) == ReadLoop(in, d, size, <<>>)

RECURSIVE SkipUncoded(_, _)
\* while (!blocks[next_coded_block].coded) of recognize_coded_block.  The flag
\* is read before next_coded_block is checked, so with next_coded_block equal to
\* blocks.size() it is read past the end of the vector.
SkipUncoded(d, next_coded_block) ==
  IF next_coded_block >= Len(d.blocks)
  THEN [next_coded_block |-> next_coded_block, status |-> "past_the_end"]
  ELSE IF d.blocks[next_coded_block + 1].coded
  THEN [next_coded_block |-> next_coded_block, status |-> "coded"]
  ELSE IF next_coded_block >= d.read_index
  THEN [next_coded_block |-> next_coded_block, status |-> "not_recorded"]
  ELSE SkipUncoded(d, next_coded_block + 1)

\* recognize_coded_block without the comparison of the marker.
recognize_coded_block_AnyMarker(in, d, buf, size) ==
  LET s == SkipUncoded(d, d.next_coded_block)
      index == s.next_coded_block + 1
      d1 == [d EXCEPT !.next_coded_block = s.next_coded_block + 1]
  IN IF s.status = "past_the_end"
     THEN [d |-> d, index |-> 0, error |-> "past_the_end"]
     ELSE IF s.status = "not_recorded"
     THEN [d |-> [d EXCEPT !.next_coded_block = s.next_coded_block], index |-> 0,
           error |-> "Coded block expected, but not recorded in the compressed data."]
     ELSE IF SizeOf(in[index]) # size
     THEN [d |-> d1, index |-> 0, error |-> "Invalid surrogate block size."]
     ELSE [d |-> d1, index |-> index, error |-> ""]

\* decompressor::recognize_coded_block(buf, size); buf holds size bytes.  index
\* counts from 1 here, 0 when no index is returned.
recognize_coded_block(in, d, buf, size) ==
  LET s == SkipUncoded(d, d.next_coded_block)
      index == s.next_coded_block + 1
      d1 == [d EXCEPT !.next_coded_block = s.next_coded_block + 1]
  IN IF s.status = "past_the_end"
     THEN [d |-> d, index |-> 0, error |-> "past_the_end"]
     ELSE IF s.status = "not_recorded"
     THEN [d |-> [d EXCEPT !.next_coded_block = s.next_coded_block], index |-> 0,
           error |-> "Coded block expected, but not recorded in the compressed data."]
     ELSE IF Has(in[index].cabac)
     THEN IF SizeOf(in[index]) # size
          THEN [d |-> d1, index |-> 0, error |-> "Invalid surrogate block size."]
          ELSE IF d.blocks[index].surrogate_marker
                    # Sub(buf, 0, Len(d.blocks[index].surrogate_marker))
          THEN [d |-> d1, index |-> 0, error |-> "Invalid surrogate marker in coded block."]
          ELSE [d |-> d1, index |-> index, error |-> ""]
     ELSE IF Has(in[index].skip_coded)
     THEN IF SizeOf(in[index]) # size
          THEN [d |-> d1, index |-> 0, error |-> "Invalid skip_coded block size."]
          ELSE [d |-> d1, index |-> index, error |-> ""]
     ELSE [d |-> d1, index |-> 0, error |-> "Internal error: expected coded block."]

\* decompressor::cabac_decoder::cabac_decoder(d, ctx_in, buf, size).  model tells
\* whether the sub-decoder recodes (has a model) or only bypasses.
decompressor_cabac_decoder(in, d, buf, size) ==
  LET r == recognize_coded_block(in, d, buf, size)
  IN IF r.error # "" THEN [d |-> r.d, index |-> 0, model |-> FALSE, error |-> r.error]
     ELSE IF Has(in[r.index].cabac)
     THEN [d |-> r.d, index |-> r.index, model |-> TRUE, error |-> ""]
     ELSE IF Has(in[r.index].skip_coded) /\ ValueOf(in[r.index].skip_coded)
     THEN [d |-> r.d, index |-> r.index, model |-> FALSE, error |-> ""]
     ELSE [d |-> r.d, index |-> 0, model |-> FALSE, error |-> "Expected CABAC block."]

\* decompressor::cabac_decoder::finish(), cabac_out holding at least one byte.
cabac_decoder_finish(d, index, cabac_out) ==
  LET trimmed == IF cabac_out[Len(cabac_out)] = 128
                 THEN SubSeq(cabac_out, 1, Len(cabac_out) - 1)
                 ELSE cabac_out
  IN [d EXCEPT !.blocks[index].out_bytes = trimmed, !.blocks[index].done = TRUE]

\* CorrectedBytes as it would be if it always replaced the last byte.
CorrectedBytes_NoInsert(block) ==
  IF block.length_parity # -1
  THEN [block.out_bytes EXCEPT ![Len(block.out_bytes)] = block.last_byte]
  ELSE block.out_bytes

\* The bytes of one block as run() writes them, after the parity correction.
CorrectedBytes(block) ==
  IF block.length_parity # -1
  THEN IF block.length_parity # Len(block.out_bytes) % 2
       THEN Append(block.out_bytes, block.last_byte)
       ELSE [block.out_bytes EXCEPT ![Len(block.out_bytes)] = block.last_byte]
  ELSE block.out_bytes

RECURSIVE RunLoop(_, _, _)
\* for (auto& block : blocks) of decompressor::run, from block i on.
RunLoop(blocks, i, written) ==
  IF i > Len(blocks) THEN [error |-> "", written |-> written]
  ELSE IF ~blocks[i].done
  THEN [error |-> "Not all blocks were decoded.", written |-> written]
  ELSE IF blocks[i].length_parity # -1 /\ blocks[i].out_bytes = <<>>
          /\ blocks[i].length_parity = 0
  THEN [error |-> "undefined", written |-> written]
  ELSE RunLoop(blocks, i + 1, written \o CorrectedBytes(blocks[i]))

\* RunLoop without the check of done.
decompressor_run_Unchecked(d) ==
  LET all == [i \in 1..Len(d.blocks) |-> [d.blocks[i] EXCEPT !.done = TRUE]]
  IN RunLoop(all, 1, <<>>)

\* decompressor::run after decode_video has returned.
decompressor_run(d) == RunLoop(d.blocks, 1, <<>>)

\* What the CABAC encoder of the reverse path has emitted when the terminate
\* symbol of a span is reached, the span's payload standing for its bytes: the
\* span as it was, the span without its final byte, or the span followed by a
\* byte holding only the stop bit.
EmittedForms(payload) ==
  { payload, SubSeq(payload, 1, Len(payload) - 1), Append(payload, 128) }

-----------------------------------------------------------------------------
(* FrameBuffer *)

\* A FrameBuffer as its constructor leaves it: no storage, width and height
\* zero, frame_num_ not initialised (junk is what the memory holds).  The
\* metadata and the residuals are kept sparsely: nnz maps <<block, scan8 index>>
\* to a num_nonzeros that is not zero, coded and is_8x8 hold the blocks whose
\* flag is set, residual holds the <<block, index>> whose residual is 1.
NewFrameBuffer(junk) ==
  [width_ |-> 0, height_ |-> 0, frame_num_ |-> junk,
   nnz |-> <<>>, coded |-> {}, is_8x8 |-> {}, residual |-> {}]

\* FrameBuffer::bzero()
bzero(fb) == [fb EXCEPT !.nnz = <<>>, !.coded = {}, !.is_8x8 = {}, !.residual = {}]

\* FrameBuffer::init(width, height, nblocks)
init(fb, width, height) == bzero([fb EXCEPT !.width_ = width, !.height_ = height])

\* FrameBuffer::set_frame_num(frame_num)
set_frame_num(fb, frame_num) == [fb EXCEPT !.frame_num_ = frame_num]

\* FrameBuffer::is_same_frame(frame_num)
is_same_frame(fb, frame_num) ==
  fb.frame_num_ = frame_num /\ fb.width_ # 0 /\ fb.height_ # 0

\* The block at(x, y) and meta_at(x, y) address: x + y * width_.
BlockAt(fb, x, y) == x + y * fb.width_

\* meta_at(x, y).num_nonzeros[scan8_index]
num_nonzeros(fb, x, y, scan8_index) ==
  LET at == <<BlockAt(fb, x, y), scan8_index>>
  IN IF at \in DOMAIN fb.nnz THEN fb.nnz[at] ELSE 0

\* meta_at(x, y).num_nonzeros[scan8_index] = n
set_num_nonzeros(fb, x, y, scan8_index, n) ==
  LET at == <<BlockAt(fb, x, y), scan8_index>>
      others == [k \in (DOMAIN fb.nnz) \ {at} |-> fb.nnz[k]]
  IN [fb EXCEPT !.nnz = IF n = 0 THEN others ELSE (at :> n) @@ others]

\* at(x, y).residual[index]
residual(fb, x, y, index) ==
  IF <<BlockAt(fb, x, y), index>> \in fb.residual THEN 1 ELSE 0

\* at(x, y).residual[index] = symbol, symbol being 0 or 1
set_residual(fb, x, y, index, symbol) ==
  [fb EXCEPT !.residual = IF symbol # 0
                          THEN @ \cup {<<BlockAt(fb, x, y), index>>}
                          ELSE @ \ {<<BlockAt(fb, x, y), index>>}]

-----------------------------------------------------------------------------
(* h264_model *)

\* The addresses that serve as contexts.  Those of the decoder's CABAC states
\* (here one for the significance flags, one for the last flags, one for the
\* levels) lie outside every model; fake_context is a static of get_model_key, one for
\* all models; the others are members of the model that lies at m.base.
significant_coeff_ctx == 1
last_coeff_ctx == 2
coeff_abs_level_ctx == 3
fake_context == 500
STATE_FOR_NUM_NONZERO_BIT(m, i) == m.base + i
bypass_context(m) == m.base + 10
terminate_context(m) == m.base + 11
significance_context(m) == m.base + 12

\* model_key(context, param0, param1)
model_key(context, param0, param1) == <<context, param0, param1>>

\* An h264_model after construction, and the sub-decoder that feeds it.
\* mb_coord has no initialiser.  On the compress side the sub-decoder holds the
\* queue, and puts lists what was handed to the arithmetic encoder: the symbol,
\* the counts that make its split and the key they were found under.  On the
\* decompress side at counts the symbols taken from the arithmetic decoder,
\* gets lists the requests made to it, ret is the symbol last returned to the
\* caller, pending the hook calls not made yet, and diverged tells why the
\* symbols returned can no longer be those of the original bitstream.
\* prefixes lists, for every NZ prefix written or read, the size of the
\* sub-block and the count of nonzeros the model holds after it.
\* has_model tells that the sub-decoder's model pointer is set: it is null in
\* the sub-decoder of a span that is not recoded.
\* finished counts the spans whose encoder was finished; eob_asserted tells
\* that the assertion of update_state_for_model_key has held so far.
\* encoder is the arithmetic coder of the compressor's sub-decoder and
\* cabac_encoder the emit coder of the decompressor's sub-decoder: members of
\* the sub-decoder, kept with the model the sub-decoder feeds.  emit_undefined
\* tells that the emit coder shifted by a negative count.
NewModel(base, junk) ==
  [base |-> base,
   coding_type |-> "PIP_UNKNOWN",
   frames |-> [f \in 0..1 |-> NewFrameBuffer(junk)],
   cur_frame |-> 0,
   mb_coord |-> [mb_x |-> junk, mb_y |-> junk, scan8_index |-> junk, zigzag_index |-> junk],
   nonzeros_observed |-> 0,
   sub_mb_cat |-> -1, sub_mb_size |-> -1, sub_mb_is_dc |-> 0, sub_mb_chroma422 |-> 0,
   estimators |-> <<>>,
   queueing_symbols |-> "PIP_UNKNOWN",
   symbol_buffer |-> <<>>,
   has_model |-> FALSE,
   encoder |-> NewEncoder(TRUE),
   cabac_encoder |-> NewCabacEncoder,
   emit_undefined |-> FALSE,
   puts |-> <<>>,
   side |-> "compress",
   prefixes |-> <<>>,
   pending |-> <<>>,
   at |-> 0,
   gets |-> <<>>,
   ret |-> 0,
   diverged |-> "",
   finished |-> 0,
   eob_asserted |-> TRUE,
   aborted |-> FALSE]

\* A key with its context told by its place: the contexts that are members of
\* the model by their offset in it, the others as they are.
KeyInModel(m, key) ==
  <<IF key[1] >= m.base THEN <<"model", key[1] - m.base>> ELSE <<"state", key[1]>>,
    key[2], key[3]>>

\* estimators[key]; struct estimator { int pos = 1, neg = 1; }
estimator(m, key) ==
  IF key \in DOMAIN m.estimators THEN m.estimators[key] ELSE [pos |-> 1, neg |-> 1]

\* frames[cur_frame] and frames[!cur_frame]
CurFrame(m) == m.frames[m.cur_frame]
PrevFrame(m) == m.frames[1 - m.cur_frame]

\* frames[cur_frame].meta_at(mb_coord.mb_x, mb_coord.mb_y).num_nonzeros[mb_coord.scan8_index]
CurNumNonzeros(m) ==
  num_nonzeros(CurFrame(m), m.mb_coord.mb_x, m.mb_coord.mb_y, m.mb_coord.scan8_index)

\* get_neighbor_sub_mb(above, sub_mb_size, input, output): has tells the result,
\* coord is *output.
get_neighbor_sub_mb(above, sub_mb_size, input) ==
  IF input.scan8_index >= 16 * 3
  THEN IF above
       THEN [has |-> input.mb_y > 0,
             coord |-> IF input.mb_y > 0 THEN [input EXCEPT !.mb_y = @ - 1] ELSE input]
       ELSE [has |-> input.mb_x > 0,
             coord |-> IF input.mb_x > 0 THEN [input EXCEPT !.mb_x = @ - 1] ELSE input]
  ELSE LET left_shift == IF above THEN 0 ELSE -1
           above_shift == IF above THEN -1 ELSE 0
           at(neighbor) ==
             IF neighbor.neighbor_left /\ input.mb_x = 0
             THEN [has |-> FALSE, coord |-> input]
             ELSE IF neighbor.neighbor_up /\ input.mb_y = 0
             THEN [has |-> FALSE, coord |-> input]
             ELSE [has |-> TRUE,
                   coord |-> [mb_x |-> IF neighbor.neighbor_left THEN input.mb_x - 1
                                       ELSE input.mb_x,
                              mb_y |-> IF neighbor.neighbor_up THEN input.mb_y - 1
                                       ELSE input.mb_y,
                              scan8_index |-> IF sub_mb_size >= 32
                                              THEN (neighbor.scan8_index \div 4) * 4
                                              ELSE neighbor.scan8_index,
                              zigzag_index |-> input.zigzag_index]]
           of(scan8) ==
             at(reverse_scan_8[(scan8 \div 8) + above_shift][(scan8 % 8) + left_shift])
       IN of(scan_8[input.scan8_index])

\* get_neighbor as it would be if the row of macroblocks above were not
\* checked to be inside the frame.
get_neighbor_TopUnchecked(above, sub_mb_size, input) ==
  LET dimension == IF sub_mb_size > 32 THEN 8 ELSE IF sub_mb_size > 15 THEN 4 ELSE 2
      zigzag_of(linear_index) ==
        IF sub_mb_size = 16 THEN zigzag16[linear_index] ELSE zigzag4[linear_index]
      dc(linear_index) ==
        IF (above /\ linear_index >= dimension) \/ (~above /\ linear_index % dimension # 0)
        THEN [has |-> TRUE,
              coord |-> [input EXCEPT !.zigzag_index =
                           zigzag_of(IF above THEN linear_index - dimension
                                     ELSE linear_index - 1)]]
        ELSE IF above
        THEN IF input.mb_y = 0 THEN [has |-> FALSE]
             ELSE [has |-> TRUE,
                   coord |-> [input EXCEPT
                                !.zigzag_index =
                                   IF sub_mb_size = 16
                                   THEN zigzag16[linear_index + dimension * (dimension - 1)]
                                   ELSE linear_index + dimension * (dimension - 1),
                                !.mb_y = @ - 1]]
        ELSE IF input.mb_x = 0 THEN [has |-> FALSE]
             ELSE [has |-> TRUE,
                   coord |-> [input EXCEPT
                                !.zigzag_index =
                                   IF sub_mb_size = 16
                                   THEN zigzag16[linear_index + dimension - 1]
                                   ELSE linear_index + dimension - 1,
                                !.mb_x = @ - 1]]
      left_shift == IF above THEN 0 ELSE -1
      above_shift == IF above THEN -1 ELSE 0
      at(neighbor) ==
        IF neighbor.neighbor_left /\ input.mb_x = 0
        THEN [has |-> FALSE]
        ELSE IF FALSE
        THEN [has |-> FALSE]
        ELSE [has |-> TRUE,
              coord |-> [mb_x |-> IF neighbor.neighbor_left THEN input.mb_x - 1
                                  ELSE input.mb_x,
                         mb_y |-> IF neighbor.neighbor_up THEN input.mb_y - 1
                                  ELSE input.mb_y,
                         scan8_index |-> IF sub_mb_size >= 32
                                         THEN (neighbor.scan8_index \div 4) * 4
                                         ELSE neighbor.scan8_index,
                         zigzag_index |-> input.zigzag_index]]
      of(scan8) ==
        at(reverse_scan_8[(scan8 \div 8) + above_shift][(scan8 % 8) + left_shift])
  IN IF input.scan8_index >= 16 * 3
     THEN dc(IF sub_mb_size = 16 THEN unzigzag16[input.zigzag_index % 16]
             ELSE unzigzag4[input.zigzag_index % 4])
     ELSE of(scan_8[input.scan8_index])

\* get_neighbor(above, sub_mb_size, input, output): has tells the result and
\* coord is *output, which is written only when the result is true.  For a DC
\* block the neighbour is a coefficient of the same block or of the block of
\* the next macroblock; get_model_key_asserts holds its assertion.
get_neighbor(above, sub_mb_size, input) ==
  LET dimension == IF sub_mb_size > 32 THEN 8 ELSE IF sub_mb_size > 15 THEN 4 ELSE 2
      zigzag_of(linear_index) ==
        IF sub_mb_size = 16 THEN zigzag16[linear_index] ELSE zigzag4[linear_index]
      dc(linear_index) ==
        IF (above /\ linear_index >= dimension) \/ (~above /\ linear_index % dimension # 0)
        THEN [has |-> TRUE,
              coord |-> [input EXCEPT !.zigzag_index =
                           zigzag_of(IF above THEN linear_index - dimension
                                     ELSE linear_index - 1)]]
        ELSE IF above
        THEN IF input.mb_y = 0 THEN [has |-> FALSE]
             ELSE [has |-> TRUE,
                   coord |-> [input EXCEPT
                                !.zigzag_index =
                                   IF sub_mb_size = 16
                                   THEN zigzag16[linear_index + dimension * (dimension - 1)]
                                   ELSE linear_index + dimension * (dimension - 1),
                                !.mb_y = @ - 1]]
        ELSE IF input.mb_x = 0 THEN [has |-> FALSE]
             ELSE [has |-> TRUE,
                   coord |-> [input EXCEPT
                                !.zigzag_index =
                                   IF sub_mb_size = 16
                                   THEN zigzag16[linear_index + dimension - 1]
                                   ELSE linear_index + dimension - 1,
                                !.mb_x = @ - 1]]
      left_shift == IF above THEN 0 ELSE -1
      above_shift == IF above THEN -1 ELSE 0
      at(neighbor) ==
        IF neighbor.neighbor_left /\ input.mb_x = 0
        THEN [has |-> FALSE]
        ELSE IF neighbor.neighbor_up /\ input.mb_y = 0
        THEN [has |-> FALSE]
        ELSE [has |-> TRUE,
              coord |-> [mb_x |-> IF neighbor.neighbor_left THEN input.mb_x - 1
                                  ELSE input.mb_x,
                         mb_y |-> IF neighbor.neighbor_up THEN input.mb_y - 1
                                  ELSE input.mb_y,
                         scan8_index |-> IF sub_mb_size >= 32
                                         THEN (neighbor.scan8_index \div 4) * 4
                                         ELSE neighbor.scan8_index,
                         zigzag_index |-> input.zigzag_index]]
      of(scan8) ==
        at(reverse_scan_8[(scan8 \div 8) + above_shift][(scan8 % 8) + left_shift])
  IN IF input.scan8_index >= 16 * 3
     THEN dc(IF sub_mb_size = 16 THEN unzigzag16[input.zigzag_index % 16]
             ELSE unzigzag4[input.zigzag_index % 4])
     ELSE of(scan_8[input.scan8_index])

\* get_neighbor_coefficient(above, sub_mb_size, input, output): has tells the
\* result and coord is *output, which is written only when the result is true.
\* (sub_mb_size & (sub_mb_size - 1)) != 0 is: sub_mb_size is no power of two.
get_neighbor_coefficient(above, sub_mb_size, input) ==
  LET zigzag_addition == IF sub_mb_size \in {0, 1, 2, 4, 8, 16, 32, 64} THEN 0 ELSE 1
      dim == IF sub_mb_size > 16 THEN 16 ELSE IF sub_mb_size <= 4 THEN 2 ELSE 4
      zigzag_to_raster == IF sub_mb_size > 16 THEN zigzag64
                          ELSE IF sub_mb_size <= 4 THEN zigzag4 ELSE unzigzag16
      raster_to_zigzag == IF sub_mb_size > 16 THEN unzigzag64
                          ELSE IF sub_mb_size <= 4 THEN unzigzag4 ELSE zigzag16
      found(raster_coord) ==
        [has |-> TRUE,
         coord |-> [input EXCEPT !.zigzag_index = raster_to_zigzag[raster_coord] - zigzag_addition]]
      at(raster_coord) ==
        IF above
        THEN IF raster_coord >= dim THEN found(raster_coord - dim) ELSE [has |-> FALSE]
        ELSE IF raster_coord % dim # 0 THEN found(raster_coord - 1) ELSE [has |-> FALSE]
  IN IF input.scan8_index >= 16 * 3
     THEN get_neighbor(above, sub_mb_size, input)
     ELSE at(zigzag_to_raster[input.zigzag_index + zigzag_addition])

\* sig_coeff_flag_offset_8x8[0], sig_coeff_offset_dc and cat_lookup of get_model_key
sig_coeff_flag_offset_8x8 ==
  LET t == << 0, 1, 2, 3, 4, 5, 5, 4, 4, 3, 3, 4, 4, 4, 5, 5,
              4, 4, 4, 4, 3, 3, 6, 7, 7, 7, 8, 9, 10, 9, 8, 7,
              7, 6, 11, 12, 13, 11, 6, 7, 8, 9, 14, 10, 9, 8, 6, 11,
              12, 13, 11, 6, 9, 14, 10, 9, 11, 12, 13, 11, 14, 10, 12 >>
  IN [i \in 0..62 |-> t[i + 1]]
sig_coeff_offset_dc ==
  LET t == <<0, 0, 1, 1, 2, 2, 2>>
  IN [i \in 0..6 |-> t[i + 1]]
cat_lookup ==
  LET t == <<105 + 0, 105 + 15, 105 + 29, 105 + 44, 105 + 47, 402, 484 + 0, 484 + 15,
             484 + 29, 660, 528 + 0, 528 + 15, 528 + 29, 718>>
  IN [i \in 0..13 |-> t[i + 1]]

\* The assertions that get_model_key and the get_neighbor it calls make hold.
get_model_key_asserts(m) ==
  m.coding_type = "PIP_SIGNIFICANCE_MAP" =>
    /\ (m.sub_mb_is_dc # 0 /\ m.sub_mb_chroma422 # 0) => m.mb_coord.zigzag_index < 7
    /\ (~(m.sub_mb_is_dc # 0 /\ m.sub_mb_chroma422 # 0) /\ m.sub_mb_size > 32) =>
         m.mb_coord.zigzag_index < 63
    /\ m.sub_mb_cat < 14
    /\ m.mb_coord.scan8_index >= 16 * 3 => (m.sub_mb_size = 16 \/ m.sub_mb_size <= 4)

\* h264_model::get_model_key(context).  The neighbours it fetches do not enter
\* the key.
get_model_key(m, context) ==
  CASE m.coding_type \in {"PIP_SIGNIFICANCE_NZ", "PIP_UNKNOWN", "PIP_UNREACHABLE", "PIP_RESIDUALS"} ->
         model_key(context, 0, 0)
    [] m.coding_type = "PIP_SIGNIFICANCE_MAP" ->
         LET zigzag_offset ==
               IF m.sub_mb_is_dc # 0 /\ m.sub_mb_chroma422 # 0
               THEN sig_coeff_offset_dc[m.mb_coord.zigzag_index]
               ELSE IF m.sub_mb_size > 32
               THEN sig_coeff_flag_offset_8x8[m.mb_coord.zigzag_index]
               ELSE m.mb_coord.zigzag_index
         IN model_key(significance_context(m),
                      64 * CurNumNonzeros(m) + m.nonzeros_observed,
                      m.sub_mb_is_dc + zigzag_offset * 2 + 16 * 2 * cat_lookup[m.sub_mb_cat])
    [] m.coding_type = "PIP_SIGNIFICANCE_EOB" ->
         model_key(fake_context, IF CurNumNonzeros(m) = m.nonzeros_observed THEN 1 ELSE 0, 0)

\* update_frame_spec as it would be if the buffer that becomes current were
\* not cleared.
update_frame_spec_Uncleared(m, frame_num, mb_width, mb_height) ==
  LET differs(fb) == fb.width_ # mb_width \/ fb.height_ # mb_height
      cur == 1 - m.cur_frame
      mine == IF differs(m.frames[cur]) THEN init(m.frames[cur], mb_width, mb_height)
              ELSE m.frames[cur]
      other == IF differs(m.frames[cur]) /\ differs(m.frames[1 - cur])
               THEN init(m.frames[1 - cur], mb_width, mb_height)
               ELSE m.frames[1 - cur]
  IN IF differs(CurFrame(m)) \/ ~is_same_frame(CurFrame(m), frame_num)
     THEN [m EXCEPT !.cur_frame = cur,
                    !.frames = [f \in 0..1 |-> IF f = cur THEN set_frame_num(mine, frame_num)
                                               ELSE other]]
     ELSE m

\* update_frame_spec as it would be if only the buffer that becomes current
\* were given the new dimensions.
update_frame_spec_OneInit(m, frame_num, mb_width, mb_height) ==
  LET differs(fb) == fb.width_ # mb_width \/ fb.height_ # mb_height
      cur == 1 - m.cur_frame
      mine == IF differs(m.frames[cur]) THEN init(m.frames[cur], mb_width, mb_height)
              ELSE bzero(m.frames[cur])
  IN IF differs(CurFrame(m)) \/ ~is_same_frame(CurFrame(m), frame_num)
     THEN [m EXCEPT !.cur_frame = cur,
                    !.frames = [f \in 0..1 |-> IF f = cur THEN set_frame_num(mine, frame_num)
                                               ELSE m.frames[1 - cur]]]
     ELSE m

\* h264_model::update_frame_spec(frame_num, mb_width, mb_height)
update_frame_spec(m, frame_num, mb_width, mb_height) ==
  LET differs(fb) == fb.width_ # mb_width \/ fb.height_ # mb_height
      cur == 1 - m.cur_frame
      mine == IF differs(m.frames[cur]) THEN init(m.frames[cur], mb_width, mb_height)
              ELSE bzero(m.frames[cur])
      other == IF differs(m.frames[cur]) /\ differs(m.frames[1 - cur])
               THEN init(m.frames[1 - cur], mb_width, mb_height)
               ELSE m.frames[1 - cur]
  IN IF differs(CurFrame(m)) \/ ~is_same_frame(CurFrame(m), frame_num)
     THEN [m EXCEPT !.cur_frame = cur,
                    !.frames = [f \in 0..1 |-> IF f = cur THEN set_frame_num(mine, frame_num)
                                               ELSE other]]
     ELSE m

\* begin_coding_type as it would be if it left mb_coord.zigzag_index as it
\* found it.
begin_coding_type_KeepZigzag(m, ct, zz_index) ==
  IF ct = "PIP_SIGNIFICANCE_MAP"
  THEN [m EXCEPT !.coding_type = ct,
                 !.frames[m.cur_frame] =
                    set_num_nonzeros(@, m.mb_coord.mb_x, m.mb_coord.mb_y, m.mb_coord.scan8_index, 0),
                 !.nonzeros_observed = 0,
                 !.aborted = @ \/ zz_index # 0]
  ELSE [m EXCEPT !.coding_type = ct]

\* h264_model::begin_coding_type(ct, zz_index, param0, param1); the value
\* returned is ct = PIP_SIGNIFICANCE_MAP.
begin_coding_type(m, ct, zz_index) ==
  IF ct = "PIP_SIGNIFICANCE_MAP"
  THEN [m EXCEPT !.coding_type = ct,
                 !.frames[m.cur_frame] =
                    set_num_nonzeros(@, m.mb_coord.mb_x, m.mb_coord.mb_y, m.mb_coord.scan8_index, 0),
                 !.nonzeros_observed = 0,
                 !.mb_coord.zigzag_index = 0,
                 !.aborted = @ \/ zz_index # 0]
  ELSE [m EXCEPT !.coding_type = ct]

\* The residual index of coefficient z of the current sub-block.
ResidualIndex(m, z) == m.mb_coord.scan8_index * 16 + z

\* frames[cur_frame].at(mb_x, mb_y).residual[scan8_index * 16 + z] = symbol
SetCurResidual(m, z, symbol) ==
  [m EXCEPT !.frames[m.cur_frame] =
     set_residual(@, m.mb_coord.mb_x, m.mb_coord.mb_y, ResidualIndex(m, z), symbol)]

\* update_state_tracking as it would be if the coefficient forced at the end of
\* the map were not counted.
update_state_tracking_ForcedUncounted(m, symbol) ==
  CASE m.coding_type = "PIP_SIGNIFICANCE_MAP" ->
         LET m1 == [SetCurResidual(m, m.mb_coord.zigzag_index, symbol)
                      EXCEPT !.nonzeros_observed = @ + symbol]
         IN IF m.mb_coord.zigzag_index + 1 = m.sub_mb_size
            THEN [m1 EXCEPT !.coding_type = "PIP_UNREACHABLE", !.mb_coord.zigzag_index = 0]
            ELSE IF symbol # 0
            THEN [m1 EXCEPT !.coding_type = "PIP_SIGNIFICANCE_EOB"]
            ELSE IF m.mb_coord.zigzag_index + 2 = m.sub_mb_size
            THEN [SetCurResidual(m1, m.mb_coord.zigzag_index + 1, 1)
                    EXCEPT !.coding_type = "PIP_UNREACHABLE",
                           !.mb_coord.zigzag_index = 0]
            ELSE [m1 EXCEPT !.mb_coord.zigzag_index = @ + 1]
    [] m.coding_type = "PIP_SIGNIFICANCE_EOB" ->
         IF symbol # 0
         THEN [m EXCEPT !.mb_coord.zigzag_index = 0, !.coding_type = "PIP_UNREACHABLE"]
         ELSE IF m.mb_coord.zigzag_index + 2 = m.sub_mb_size
         THEN [SetCurResidual(m, m.mb_coord.zigzag_index + 1, 1)
                 EXCEPT !.coding_type = "PIP_UNREACHABLE"]
         ELSE [m EXCEPT !.coding_type = "PIP_SIGNIFICANCE_MAP", !.mb_coord.zigzag_index = @ + 1]
    [] m.coding_type = "PIP_UNREACHABLE" -> [m EXCEPT !.aborted = TRUE]
    [] OTHER -> m

\* h264_model::update_state_tracking(symbol)
update_state_tracking(m, symbol) ==
  CASE m.coding_type = "PIP_SIGNIFICANCE_MAP" ->
         LET m1 == [SetCurResidual(m, m.mb_coord.zigzag_index, symbol)
                      EXCEPT !.nonzeros_observed = @ + symbol]
         IN IF m.mb_coord.zigzag_index + 1 = m.sub_mb_size
            THEN [m1 EXCEPT !.coding_type = "PIP_UNREACHABLE", !.mb_coord.zigzag_index = 0]
            ELSE IF symbol # 0
            THEN [m1 EXCEPT !.coding_type = "PIP_SIGNIFICANCE_EOB"]
            ELSE IF m.mb_coord.zigzag_index + 2 = m.sub_mb_size
            THEN [SetCurResidual(m1, m.mb_coord.zigzag_index + 1, 1)
                    EXCEPT !.nonzeros_observed = @ + 1,
                           !.coding_type = "PIP_UNREACHABLE",
                           !.mb_coord.zigzag_index = 0]
            ELSE [m1 EXCEPT !.mb_coord.zigzag_index = @ + 1]
    [] m.coding_type = "PIP_SIGNIFICANCE_EOB" ->
         IF symbol # 0
         THEN [m EXCEPT !.mb_coord.zigzag_index = 0, !.coding_type = "PIP_UNREACHABLE"]
         ELSE IF m.mb_coord.zigzag_index + 2 = m.sub_mb_size
         THEN [SetCurResidual(m, m.mb_coord.zigzag_index + 1, 1)
                 EXCEPT !.coding_type = "PIP_UNREACHABLE"]
         ELSE [m EXCEPT !.coding_type = "PIP_SIGNIFICANCE_MAP", !.mb_coord.zigzag_index = @ + 1]
    [] m.coding_type = "PIP_UNREACHABLE" -> [m EXCEPT !.aborted = TRUE]
    [] OTHER -> m

\* update_state_for_model_key as it would be if the halves were rounded down.
update_state_for_model_key_HalveDown(m, symbol, key) ==
  LET e == estimator(m, key)
      counted == IF symbol # 0 THEN [e EXCEPT !.pos = @ + 1] ELSE [e EXCEPT !.neg = @ + 1]
      cap == IF m.coding_type = "PIP_SIGNIFICANCE_MAP" THEN 80 ELSE 96
      halved == IF counted.pos + counted.neg > cap
                THEN [pos |-> counted.pos \div 2, neg |-> counted.neg \div 2]
                ELSE counted
      others == [k \in (DOMAIN m.estimators) \ {key} |-> m.estimators[k]]
  IN update_state_tracking([m EXCEPT !.estimators = (key :> halved) @@ others], symbol)

\* h264_model::update_state_for_model_key(symbol, key)
update_state_for_model_key(m, symbol, key) ==
  LET e == estimator(m, key)
      counted == IF symbol # 0 THEN [e EXCEPT !.pos = @ + 1] ELSE [e EXCEPT !.neg = @ + 1]
      cap == IF m.coding_type = "PIP_SIGNIFICANCE_MAP" THEN 80 ELSE 96
      halved == IF counted.pos + counted.neg > cap
                THEN [pos |-> (counted.pos + 1) \div 2, neg |-> (counted.neg + 1) \div 2]
                ELSE counted
      others == [k \in (DOMAIN m.estimators) \ {key} |-> m.estimators[k]]
      asserted == m.coding_type = "PIP_SIGNIFICANCE_EOB" =>
                    symbol = (IF CurNumNonzeros(m) = m.nonzeros_observed THEN 1 ELSE 0)
      m1 == [m EXCEPT !.estimators = (key :> halved) @@ others,
                      !.eob_asserted = @ /\ asserted,
                      !.aborted = @ \/ ~asserted]
  IN update_state_tracking(m1, symbol)

\* h264_model::update_state(symbol, context)
update_state(m, symbol, context) ==
  update_state_for_model_key(m, symbol, get_model_key(m, context))

\* encoder.put(symbol, [&](range_t range){ return model->probability_for_model_key(range, key); }):
\* the split handed to the encoder is (range / (pos + neg)) * pos.
PutForKey(m, symbol, key) ==
  [m EXCEPT !.puts = Append(@, [symbol |-> symbol,
                                pos |-> estimator(m, key).pos,
                                neg |-> estimator(m, key).neg,
                                key |-> KeyInModel(m, key)]),
            !.encoder = put(@, 1, symbol,
                            probability_for_model_key(@.range, estimator(m, key).pos,
                                                      estimator(m, key).neg))]

\* h264_symbol::execute(encoder, model, out, encoder_out); a symbol 1 in the
\* terminate context finishes the encoder and sets the block's cabac.
execute(m, symbol, state) ==
  IF ~get_model_key_asserts(m)
  THEN [m EXCEPT !.aborted = TRUE]
  ELSE LET m1 == IF m.coding_type # "PIP_SIGNIFICANCE_EOB"
                 THEN PutForKey(m, symbol, get_model_key(m, state))
                 ELSE m
           m2 == update_state(m1, symbol, state)
       IN IF state = terminate_context(m) /\ symbol # 0
          THEN [m2 EXCEPT !.finished = @ + 1, !.encoder = finish(@, 1)]
          ELSE m2

\* end_coding_type as it would be if the count stopped before the last
\* coefficient of the sub-block.
end_coding_type_LastUncounted(m, ct) ==
  IF ct = "PIP_SIGNIFICANCE_MAP"
  THEN LET counted == Cardinality({i \in 0..(m.sub_mb_size - 2) :
                        residual(CurFrame(m), m.mb_coord.mb_x, m.mb_coord.mb_y,
                                 ResidualIndex(m, i)) # 0})
           at == BlockAt(CurFrame(m), m.mb_coord.mb_x, m.mb_coord.mb_y)
           walked == m.coding_type = "PIP_UNREACHABLE"
                     \/ (m.coding_type = "PIP_SIGNIFICANCE_MAP" /\ m.mb_coord.zigzag_index = 0)
           agrees == CurNumNonzeros(m) = 0 \/ CurNumNonzeros(m) = counted
           fb == set_num_nonzeros(CurFrame(m), m.mb_coord.mb_x, m.mb_coord.mb_y,
                                  m.mb_coord.scan8_index, counted)
       IN [m EXCEPT !.frames[m.cur_frame] =
                       [fb EXCEPT !.coded = @ \cup {at},
                                  !.is_8x8 = IF m.sub_mb_size > 32 THEN @ \cup {at} ELSE @],
                    !.coding_type = "PIP_UNKNOWN",
                    !.aborted = @ \/ ~walked \/ ~agrees]
  ELSE [m EXCEPT !.coding_type = "PIP_UNKNOWN"]

\* h264_model::end_coding_type(ct)
end_coding_type(m, ct) ==
  IF ct = "PIP_SIGNIFICANCE_MAP"
  THEN LET counted == Cardinality({i \in 0..(m.sub_mb_size - 1) :
                        residual(CurFrame(m), m.mb_coord.mb_x, m.mb_coord.mb_y,
                                 ResidualIndex(m, i)) # 0})
           at == BlockAt(CurFrame(m), m.mb_coord.mb_x, m.mb_coord.mb_y)
           walked == m.coding_type = "PIP_UNREACHABLE"
                     \/ (m.coding_type = "PIP_SIGNIFICANCE_MAP" /\ m.mb_coord.zigzag_index = 0)
           agrees == CurNumNonzeros(m) = 0 \/ CurNumNonzeros(m) = counted
           fb == set_num_nonzeros(CurFrame(m), m.mb_coord.mb_x, m.mb_coord.mb_y,
                                  m.mb_coord.scan8_index, counted)
       IN [m EXCEPT !.frames[m.cur_frame] =
                       [fb EXCEPT !.coded = @ \cup {at},
                                  !.is_8x8 = IF m.sub_mb_size > 32 THEN @ \cup {at} ELSE @],
                    !.coding_type = "PIP_UNKNOWN",
                    !.aborted = @ \/ ~walked \/ ~agrees]
  ELSE [m EXCEPT !.coding_type = "PIP_UNKNOWN"]

\* serialized_bits of finished_queueing
serialized_bits(m) == IF m.sub_mb_size > 16 THEN 6 ELSE IF m.sub_mb_size > 4 THEN 4 ELSE 2

\* The key of bit i of the count of nonzeros, serialized_so_far being the bits
\* already put.
NumNonzeroBitKey(m, i, serialized_so_far) ==
  LET cur_bit == 2 ^ i
      nonzero(has, coord) ==
        IF has THEN num_nonzeros(CurFrame(m), coord.mb_x, coord.mb_y, coord.scan8_index)
        ELSE 0
      left_bit(left) ==
        IF left.has THEN (IF nonzero(left.has, left.coord) >= cur_bit THEN 1 ELSE 0) ELSE 2
      above_bit(above_nonzero) ==
        IF above_nonzero # 0 THEN (IF above_nonzero >= cur_bit THEN 1 ELSE 0) ELSE 2
      nonzero_of(above) == nonzero(above.has, above.coord)
      left_nonzero_bit == left_bit(get_neighbor_sub_mb(FALSE, m.sub_mb_size, m.mb_coord))
      above_nonzero_bit ==
        above_bit(nonzero_of(get_neighbor_sub_mb(TRUE, m.sub_mb_size, m.mb_coord)))
      prev_bit == IF num_nonzeros(PrevFrame(m), m.mb_coord.mb_x, m.mb_coord.mb_y,
                                  m.mb_coord.scan8_index) >= cur_bit THEN 1 ELSE 0
      is_8x8 == IF BlockAt(CurFrame(m), m.mb_coord.mb_x, m.mb_coord.mb_y) \in CurFrame(m).is_8x8
                THEN 1 ELSE 0
  IN model_key(STATE_FOR_NUM_NONZERO_BIT(m, i),
               serialized_so_far + 64 * prev_bit + 128 * left_nonzero_bit + 384 * above_nonzero_bit,
               is_8x8 + m.sub_mb_is_dc * 2 + m.sub_mb_chroma422 + m.sub_mb_cat * 4)

\* The loop of finished_queueing from bit i on, put_or_get being the lambda of
\* compressor::cabac_decoder::end_coding_type: encoder.put, then
\* update_state_for_model_key.
RECURSIVE PutNumNonzeroBits(_, _, _)
PutNumNonzeroBits(m, i, serialized_so_far) ==
  IF i >= serialized_bits(m)
  THEN m
  ELSE LET put_or_get(bit, key) ==
             PutNumNonzeroBits(update_state_for_model_key(PutForKey(m, bit, key), bit, key),
                               i + 1,
                               IF bit # 0 THEN serialized_so_far + 2 ^ i
                               ELSE serialized_so_far)
       IN put_or_get((CurNumNonzeros(m) \div (2 ^ i)) % 2,
                     NumNonzeroBitKey(m, i, serialized_so_far))

\* The count of nonzeros of the current sub-block as finished_queueing leaves it.
Prefixed(m) ==
  [m EXCEPT !.prefixes = Append(@, [size |-> m.sub_mb_size, num_nonzeros |-> CurNumNonzeros(m)])]

\* h264_model::finished_queueing(ct, put_or_get) with the lambda of the compress
\* side: nonzero_bits are the six low bits of the count, which is rebuilt from
\* them.
finished_queueing(m, ct) ==
  IF ct = "PIP_SIGNIFICANCE_MAP"
  THEN LET m1 == PutNumNonzeroBits([m EXCEPT !.coding_type = "PIP_SIGNIFICANCE_NZ"], 0, 0)
       IN Prefixed([m1 EXCEPT !.frames[m.cur_frame] =
                                 set_num_nonzeros(@, m.mb_coord.mb_x, m.mb_coord.mb_y,
                                                  m.mb_coord.scan8_index,
                                                  CurNumNonzeros(m) % 64),
                              !.coding_type = m.coding_type])
  ELSE m

\* h264_model::reset_mb_significance_state_tracking()
reset_mb_significance_state_tracking(m) ==
  [m EXCEPT !.mb_coord.zigzag_index = 0,
            !.nonzeros_observed = 0,
            !.coding_type = "PIP_SIGNIFICANCE_MAP"]

-----------------------------------------------------------------------------
(* compressor::cabac_decoder, the part that feeds the model *)

\* cabac_decoder::execute_symbol(symbol, state)
execute_symbol(m, symbol, state) ==
  IF m.queueing_symbols \in {"PIP_SIGNIFICANCE_MAP", "PIP_SIGNIFICANCE_EOB"}
     \/ m.symbol_buffer # <<>>
  THEN update_state_tracking(
         [m EXCEPT !.symbol_buffer = Append(@, [symbol |-> symbol, state |-> state])], symbol)
  ELSE execute(m, symbol, state)

\* cabac_decoder::push_queueing_symbols(ct)
push_queueing_symbols(m, ct) ==
  [m EXCEPT !.queueing_symbols = ct,
            !.aborted = @ \/ m.queueing_symbols # "PIP_UNKNOWN" \/ m.symbol_buffer # <<>>]

\* cabac_decoder::stop_queueing_symbols()
stop_queueing_symbols(m) ==
  [m EXCEPT !.queueing_symbols = "PIP_UNKNOWN",
            !.aborted = @ \/ m.queueing_symbols = "PIP_UNKNOWN"]

\* The loop of pop_queueing_symbols over symbol_buffer from its element i on.
RECURSIVE ExecuteBuffered(_, _)
ExecuteBuffered(m, i) ==
  IF i > Len(m.symbol_buffer)
  THEN m
  ELSE ExecuteBuffered(execute(m, m.symbol_buffer[i].symbol, m.symbol_buffer[i].state), i + 1)

\* pop_queueing_symbols as it would be without symbol_buffer.clear().
pop_queueing_symbols_KeepBuffer(m, ct) ==
  LET m1 == IF ct \in {"PIP_SIGNIFICANCE_MAP", "PIP_SIGNIFICANCE_EOB"}
            THEN reset_mb_significance_state_tracking(m)
            ELSE m
  IN ExecuteBuffered(m1, 1)

\* cabac_decoder::pop_queueing_symbols(ct)
pop_queueing_symbols(m, ct) ==
  LET m1 == IF ct \in {"PIP_SIGNIFICANCE_MAP", "PIP_SIGNIFICANCE_EOB"}
            THEN reset_mb_significance_state_tracking(m)
            ELSE m
  IN [ExecuteBuffered(m1, 1) EXCEPT !.symbol_buffer = <<>>]

\* begin_coding_type as it would be if the sub-decoder of a span that is not
\* recoded went to the compressor's model all the same.
cabac_decoder_begin_coding_type_Unguarded(m, ct, zigzag_index) ==
  LET m1 == begin_coding_type(m, ct, zigzag_index)
  IN IF ct = "PIP_SIGNIFICANCE_MAP" THEN push_queueing_symbols(m1, ct) ELSE m1

\* cabac_decoder::begin_coding_type(ct, zigzag_index, param0, param1)
cabac_decoder_begin_coding_type(m, ct, zigzag_index) ==
  LET m1 == begin_coding_type(m, ct, zigzag_index)
  IN IF ~m.has_model THEN m
     ELSE IF ct = "PIP_SIGNIFICANCE_MAP" THEN push_queueing_symbols(m1, ct) ELSE m1

\* cabac_decoder::end_coding_type(ct)
cabac_decoder_end_coding_type(m, ct) ==
  LET m1 == end_coding_type(m, ct)
  IN IF ~m.has_model THEN m
     ELSE IF ct \in {"PIP_SIGNIFICANCE_MAP", "PIP_SIGNIFICANCE_EOB"}
     THEN [pop_queueing_symbols(finished_queueing(stop_queueing_symbols(m1), ct), ct)
             EXCEPT !.coding_type = "PIP_UNKNOWN"]
     ELSE m1

-----------------------------------------------------------------------------
(* recoded_code = arithmetic_code<uint64_t, uint8_t>: range_t as four digits *)

\* A range_t is written as its four digits of 16 bits, the most significant
\* first.
Limb == 65536

\* x / d for an int d of at most 16 bits
DivSmall(x, d) ==
  LET r1 == x[1] % d
      r2 == (r1 * Limb + x[2]) % d
      r3 == (r2 * Limb + x[3]) % d
  IN << x[1] \div d,
        (r1 * Limb + x[2]) \div d,
        (r2 * Limb + x[3]) \div d,
        (r3 * Limb + x[4]) \div d >>

\* x * k for an int k of at most 14 bits; the product wraps as uint64_t does.
MulSmall(x, k) ==
  LET p4 == x[4] * k
      p3 == x[3] * k + p4 \div Limb
      p2 == x[2] * k + p3 \div Limb
      p1 == x[1] * k + p2 \div Limb
  IN << p1 % Limb, p2 % Limb, p3 % Limb, p4 % Limb >>

\* x + k for an int k of at most 16 bits, wrapping
AddSmall(x, k) ==
  LET s4 == x[4] + k
      s3 == x[3] + s4 \div Limb
      s2 == x[2] + s3 \div Limb
      s1 == x[1] + s2 \div Limb
  IN << s1 % Limb, s2 % Limb, s3 % Limb, s4 % Limb >>

\* x < y
Less(x, y) ==
  \E i \in 1..4 : x[i] < y[i] /\ \A j \in 1..(i - 1) : x[j] = y[j]

\* recoded_code::fixed_one, 2^63, and recoded_code::min_range
recoded_fixed_one == << Limb \div 2, 0, 0, 0 >>
recoded_min_range == DivSmall(DivSmall(recoded_fixed_one, 256), 16)

\* probability_for_model_key as it would be if it took the share of pos + 1.
probability_for_range_t_OneMore(range, pos, neg) ==
  MulSmall(DivSmall(range, pos + neg), pos + 1)

\* h264_model::probability_for_model_key(range, key) on a range_t, for the
\* estimator (pos, neg) of the key.
probability_for_range_t(range, pos, neg) ==
  MulSmall(DivSmall(range, pos + neg), pos)

-----------------------------------------------------------------------------
(* decompressor::cabac_decoder, the part that feeds the model *)

\* decoder->get([&](range_t range){ return model->probability_for_model_key(range, key); })
\* with ac the puts that made the block's cabac.  The symbol is the one put at
\* this place when there is one and the split is the split it was put under;
\* otherwise the bytes do not determine it the way the encoder meant.
DecoderGet(m, key, ac) ==
  LET k == m.at + 1
      e == estimator(m, key)
      why == IF k > Len(ac) THEN "end"
             ELSE IF ac[k].pos # e.pos \/ ac[k].neg # e.neg THEN "split"
             ELSE ""
      symbol == IF k > Len(ac) THEN 0 ELSE ac[k].symbol
  IN [m EXCEPT !.at = k,
               !.ret = symbol,
               !.gets = Append(@, [symbol |-> symbol, pos |-> e.pos, neg |-> e.neg,
                                   key |-> KeyInModel(m, key), at |-> k]),
               !.diverged = IF @ = "" THEN why ELSE @]

\* cabac_encoder.put(symbol, state), byte being the state byte the decoder
\* holds at state.  The byte put writes back is the decoder's and is not kept.
EmitSymbol(m, symbol, byte) ==
  IF Cardinality(RangeApprox(m.cabac_encoder.range)) # 1
  THEN [m EXCEPT !.emit_undefined = TRUE]
  ELSE [m EXCEPT !.cabac_encoder =
                    cabac_put(@, symbol, byte, CHOOSE a \in RangeApprox(@.range) : TRUE)]

\* decompressor::cabac_decoder::get(state)
decompressor_get(m, state, byte, ac) ==
  IF ~get_model_key_asserts(m)
  THEN [m EXCEPT !.aborted = TRUE]
  ELSE LET m1 == IF m.coding_type = "PIP_SIGNIFICANCE_EOB"
                 THEN [m EXCEPT !.ret = get_model_key(m, state)[2]]
                 ELSE DecoderGet(m, get_model_key(m, state), ac)
       IN update_state(EmitSymbol(m1, m1.ret, byte), m1.ret, state)

\* decompressor::cabac_decoder::get_bypass()
decompressor_get_bypass(m, ac) ==
  LET m1 == DecoderGet(m, get_model_key(m, bypass_context(m)), ac)
      m2 == update_state(m1, m1.ret, bypass_context(m))
  IN [m2 EXCEPT !.cabac_encoder = cabac_put_bypass(@, m1.ret)]

\* decompressor::cabac_decoder::get_terminate(); a symbol 1 finishes the block.
decompressor_get_terminate(m, ac) ==
  LET m1 == DecoderGet(m, get_model_key(m, terminate_context(m)), ac)
      m2 == update_state(m1, m1.ret, terminate_context(m))
      m3 == [m2 EXCEPT !.cabac_encoder = cabac_put_terminate(@, m1.ret)]
  IN IF m1.ret # 0 THEN [m3 EXCEPT !.finished = @ + 1] ELSE m3

\* The loop of finished_queueing from bit i on, put_or_get being the lambda of
\* decompressor::cabac_decoder::begin_coding_type: decoder->get, then
\* update_state_for_model_key.  nonzero_bits are the bits got so far.
RECURSIVE GetNumNonzeroBits(_, _, _, _)
GetNumNonzeroBits(m, i, serialized_so_far, ac) ==
  IF i >= serialized_bits(m)
  THEN [m EXCEPT !.frames[m.cur_frame] =
                    set_num_nonzeros(@, m.mb_coord.mb_x, m.mb_coord.mb_y,
                                     m.mb_coord.scan8_index,
                                     serialized_so_far
                                       + ((CurNumNonzeros(m) % 64) \div (2 ^ i)) * (2 ^ i))]
  ELSE LET got(m1, key) ==
             GetNumNonzeroBits(update_state_for_model_key(m1, m1.ret, key),
                               i + 1,
                               IF m1.ret # 0 THEN serialized_so_far + 2 ^ i
                               ELSE serialized_so_far,
                               ac)
           put_or_get(key) == got(DecoderGet(m, key, ac), key)
       IN put_or_get(NumNonzeroBitKey(m, i, serialized_so_far))

\* h264_model::finished_queueing(ct, put_or_get) with the lambda of the
\* decompress side.
finished_queueing_get(m, ct, ac) ==
  IF ct = "PIP_SIGNIFICANCE_MAP"
  THEN Prefixed([GetNumNonzeroBits([m EXCEPT !.coding_type = "PIP_SIGNIFICANCE_NZ"], 0, 0, ac)
                   EXCEPT !.coding_type = m.coding_type])
  ELSE m

\* decompressor::cabac_decoder::begin_coding_type(ct, zigzag_index, param0, param1)
decompressor_begin_coding_type(m, ct, zigzag_index, ac) ==
  LET m1 == begin_coding_type(m, ct, zigzag_index)
  IN IF ~m.has_model THEN m
     ELSE IF ct = "PIP_SIGNIFICANCE_MAP" THEN finished_queueing_get(m1, ct, ac) ELSE m1

\* decompressor::cabac_decoder::end_coding_type(ct)
decompressor_end_coding_type(m, ct) == IF ~m.has_model THEN m ELSE end_coding_type(m, ct)

-----------------------------------------------------------------------------
(* Values of the parts a specification does not drive *)

\* No lookup made yet.
NoLookup == [table |-> "none", i |-> 0, a |-> r_scan8_inv, zu |-> 0, uz |-> 0]

\* Before av_decoder<compressor> exists: no hook has been called.
IdleCompressorEnv ==
  [pc |-> "idle", asserts |-> FALSE, open |-> 0, eof |-> FALSE,
   spans |-> <<>>]

\* The hooks' caller at the start of compressor::run, in a build with
\* assertions or without (NDEBUG).
NewCompressorEnv(asserts) == [IdleCompressorEnv EXCEPT !.pc = "decode", !.asserts = asserts]

\* Before av_decoder<decompressor> exists.
IdleDecompressorEnv ==
  [pc |-> "idle", asserts |-> FALSE, open |-> 0, eof |-> FALSE, stream |-> <<>>,
   next |-> 1, calls |-> <<>>, finished |-> {}, returned |-> FALSE,
   error |-> "", aborted |-> FALSE, written |-> <<>>]

\* The hooks' caller at the start of decompressor::run.
NewDecompressorEnv(asserts) ==
  [IdleDecompressorEnv EXCEPT !.pc = "decode", !.asserts = asserts]

Instances == 1..2

\* Where the two models lie in memory, and what the memory of a member without
\* initialiser may hold.
BaseOf(i) == 1000 * i
Junk == {0, 3}

\* Frame sizes in macroblocks, frame numbers, and the sub-blocks the decoder
\* announces: a luma 4x4 block and the chroma DC block.
FrameSizes == {<<2, 1>>, <<1, 2>>}
FrameNums == 1..MaxFrameNum
Luma4x4(scan8index) ==
  [cat |-> 2, scan8index |-> scan8index, max_coeff |-> 16, is_dc |-> 0, chroma422 |-> 0]
ChromaDC ==
  [cat |-> 3, scan8index |-> 49, max_coeff |-> 4, is_dc |-> 1, chroma422 |-> 0]
Luma8x8(scan8index) ==
  [cat |-> 5, scan8index |-> scan8index, max_coeff |-> 64, is_dc |-> 0, chroma422 |-> 0]
SubMbs == {Luma4x4(0), Luma4x4(1), ChromaDC}
NoSubMb == [cat |-> -1, scan8index |-> -1, max_coeff |-> -1, is_dc |-> 0, chroma422 |-> 0]

\* The decoder before its first slice.  frame_sizes, frame_nums and sub_mbs are
\* what the video it decodes is made of, max_hooks and max_symbols how much of
\* it there is.  mbs_read are the macroblocks read in the slice and subs_read
\* the sub-blocks read in the macroblock: the decoder reads each one once.
\* state_bytes are the values of the CABAC state bytes the decoder hands to get.
IdleHooks ==
  [pc |-> "idle", width |-> 0, height |-> 0, sub |-> NoSubMb, stage |-> "none",
   ct |-> "PIP_UNKNOWN", z |-> 0, last |-> FALSE, nsym |-> 0, nhooks |-> 0,
   frame_num |-> 0, skipped |-> FALSE, mbs_read |-> {}, subs_read |-> {},
   frame_sizes |-> {}, frame_nums |-> {}, sub_mbs |-> {}, state_bytes |-> {0},
   max_hooks |-> 0, max_symbols |-> 0]
NewHooks ==
  [IdleHooks EXCEPT !.pc = "start", !.frame_sizes = FrameSizes, !.frame_nums = FrameNums,
                    !.sub_mbs = SubMbs, !.max_hooks = MaxHooks, !.max_symbols = MaxSymbols]

\* The decoder of a video whose frames are one macroblock and may come with
\* the frame number of the frame before, as the two fields of a frame do; a
\* macroblock has a luma 4x4 block, a luma 8x8 block and the chroma DC block.
RecodeSubMbs == {Luma4x4(0), Luma8x8(4), ChromaDC}
NewRecodeHooks ==
  [IdleHooks EXCEPT !.pc = "start", !.frame_sizes = {<<1, 1>>}, !.frame_nums = FrameNums,
                    !.sub_mbs = RecodeSubMbs,
                    !.max_hooks = RecodeHooks, !.max_symbols = RecodeSymbols]

\* The decoder of a video whose frames change size from one to the next; a
\* macroblock has the chroma DC block.
FrameDims == {<<1, 1>>, <<1, 2>>, <<2, 1>>, <<2, 2>>}
NewFrameHooks ==
  [IdleHooks EXCEPT !.pc = "start", !.frame_sizes = FrameDims, !.frame_nums = FrameNums,
                    !.sub_mbs = {ChromaDC},
                    !.max_hooks = FrameHooks, !.max_symbols = FrameSymbols]

\* The decoder of a video of frames of one macroblock with a luma 4x4 block,
\* some of whose CABAC spans are not recoded; it holds a state byte for the
\* most skewed state with 1 more probable, or for the even state with 0.
NewSkipHooks ==
  [IdleHooks EXCEPT !.pc = "start", !.frame_sizes = {<<1, 1>>}, !.frame_nums = {1},
                    !.sub_mbs = {Luma4x4(0)}, !.state_bytes = {0, 125},
                    !.max_hooks = SkipHooks, !.max_symbols = SkipSymbols]

\* Two models nothing drives.
IdleModels == [i \in Instances |-> NewModel(BaseOf(i), 0)]

-----------------------------------------------------------------------------
(* The arithmetic coder driven by a caller: puts, finish, then gets *)

ACInit ==
  /\ acRatio \in {r \in {1, 2} : ValidInstantiation(r)}
  /\ enc \in {NewEncoder(a) : a \in BOOLEAN}
  /\ acPc = "put"
  /\ bits = <<>>
  /\ probs = <<>>
  /\ dec = NewDecoder(<<>>)
  /\ tab = NoLookup
  /\ original_bytes = <<>>
  /\ comp = NewCompressor
  /\ cenv = IdleCompressorEnv
  /\ din = <<>>
  /\ dcm = NewDecompressor(<<>>)
  /\ denv = IdleDecompressorEnv
  /\ mdl = IdleModels
  /\ hook = IdleHooks

\* The variables the coder's operations leave alone.
nonAC == <<tabVars, spliceVars, modelVars>>

\* encoder.put(symbol, p)
Put ==
  /\ acPc = "put"
  /\ ~enc.aborted
  /\ Len(bits) < MaxBits
  /\ \E symbol \in {0, 1}, p \in ProbFns :
       LET range_of_1 == probability_of_1(p, enc.range)
       IN /\ 0 < range_of_1
          /\ range_of_1 < enc.range
          /\ enc' = put(enc, acRatio, symbol, range_of_1)
          /\ bits' = Append(bits, symbol)
          /\ probs' = Append(probs, p)
  /\ UNCHANGED <<acRatio, acPc, dec>>
  /\ UNCHANGED nonAC

\* encoder.finish(), called by the encoder's owner.
Finish ==
  /\ acPc = "put"
  /\ ~enc.aborted
  /\ enc' = finish(enc, acRatio)
  /\ acPc' = "finished"
  /\ UNCHANGED <<acRatio, bits, probs, dec>>
  /\ UNCHANGED nonAC

\* ~encoder() { finish(); } on an encoder already finished.
FinishAgain ==
  /\ acPc = "finished"
  /\ ~enc.aborted
  /\ enc' = finish(enc, acRatio)
  /\ acPc' = "finished2"
  /\ UNCHANGED <<acRatio, bits, probs, dec>>
  /\ UNCHANGED nonAC

\* A decoder is made over the digits the encoder has emitted.
MakeDecoder ==
  /\ acPc = "finished"
  /\ ~enc.aborted
  /\ dec' = NewDecoder(enc.out)
  /\ acPc' = "get"
  /\ UNCHANGED <<acRatio, enc, bits, probs>>
  /\ UNCHANGED nonAC

\* decoder.get(p), with the probability function of the matching put.
Get ==
  /\ acPc = "get"
  /\ Len(dec.syms) < Len(bits)
  /\ dec' = get(dec, acRatio, enc.out,
                probability_of_1(probs[Len(dec.syms) + 1], dec.range))
  /\ UNCHANGED <<acRatio, enc, acPc, bits, probs>>
  /\ UNCHANGED nonAC

ACNext == Put \/ Finish \/ FinishAgain \/ MakeDecoder \/ Get

-----------------------------------------------------------------------------
(* The encoder under puts without end *)

\* An encoder as constructed; the digits it emits go to its output iterator
\* and are not kept here.
EncoderInit ==
  /\ acRatio \in {r \in {1, 2} : ValidInstantiation(r)}
  /\ enc = NewEncoder(TRUE)
  /\ acPc = "put"
  /\ bits = <<>>
  /\ probs = <<>>
  /\ dec = NewDecoder(<<>>)
  /\ tab = NoLookup
  /\ original_bytes = <<>>
  /\ comp = NewCompressor
  /\ cenv = IdleCompressorEnv
  /\ din = <<>>
  /\ dcm = NewDecompressor(<<>>)
  /\ denv = IdleDecompressorEnv
  /\ mdl = IdleModels
  /\ hook = IdleHooks

\* encoder.put(symbol, p), any number of times.
EPut ==
  /\ acPc = "put"
  /\ ~enc.aborted
  /\ Len(enc.overflow) < MaxQueue
  /\ \E symbol \in {0, 1}, p \in ProbFns :
       LET range_of_1 == probability_of_1(p, enc.range)
       IN /\ 0 < range_of_1
          /\ range_of_1 < enc.range
          /\ enc' = [put(enc, acRatio, symbol, range_of_1) EXCEPT !.out = <<>>]
  /\ UNCHANGED <<acRatio, acPc, bits, probs, dec>>
  /\ UNCHANGED nonAC

EncoderNext == EPut

SpecEncoder == EncoderInit /\ [][EncoderNext]_vars

\* The variables the scan table lookups leave alone.
nonTab == <<acVars, spliceVars, modelVars>>

-----------------------------------------------------------------------------
(* The emit coder under the symbols of a span *)

\* The state bytes the decoder hands to put: twice a state index of 0..63
\* plus the more probable symbol.
StateBytes == 0..127

\* A cabac::encoder as constructed, before the first symbol of its span.
EmitInit ==
  /\ acRatio = 1
  /\ enc = NewCabacEncoder
  /\ acPc = "emit"
  /\ bits = <<>>
  /\ probs = <<>>
  /\ dec = NewDecoder(<<>>)
  /\ tab = NoLookup
  /\ original_bytes = <<>>
  /\ comp = NewCompressor
  /\ cenv = IdleCompressorEnv
  /\ din = <<>>
  /\ dcm = NewDecompressor(<<>>)
  /\ denv = IdleDecompressorEnv
  /\ mdl = IdleModels
  /\ hook = IdleHooks

\* cabac_encoder.put(symbol, state)
EmitPut ==
  /\ acPc = "emit" /\ ~enc.stuck
  /\ \E symbol \in {0, 1}, state \in StateBytes, range_approx \in RangeApprox(enc.range) :
       enc' = cabac_put(enc, symbol, state, range_approx)
  /\ UNCHANGED <<acRatio, acPc, bits, probs, dec>>
  /\ UNCHANGED nonAC

\* cabac_encoder.put_bypass(symbol)
EmitPutBypass ==
  /\ acPc = "emit" /\ ~enc.stuck
  /\ \E symbol \in {0, 1} : enc' = cabac_put_bypass(enc, symbol)
  /\ UNCHANGED <<acRatio, acPc, bits, probs, dec>>
  /\ UNCHANGED nonAC

\* cabac_encoder.put_terminate(symbol); after an end of stream symbol the
\* sub-decoder finishes the encoder and puts nothing more.
EmitPutTerminate ==
  /\ acPc = "emit" /\ ~enc.stuck
  /\ \E symbol \in {0, 1} :
       /\ enc' = cabac_put_terminate(enc, symbol)
       /\ acPc' = IF symbol # 0 THEN "emitted" ELSE acPc
  /\ UNCHANGED <<acRatio, bits, probs, dec>>
  /\ UNCHANGED nonAC

EmitNext == EmitPut \/ EmitPutBypass \/ EmitPutTerminate

SpecEmit == EmitInit /\ [][EmitNext]_vars

-----------------------------------------------------------------------------
(* The scan table lookups of test_reverse_scan8 *)

TabInit ==
  /\ tab = NoLookup
  /\ acRatio = 1
  /\ enc = NewEncoder(TRUE)
  /\ acPc = "idle"
  /\ bits = <<>>
  /\ probs = <<>>
  /\ dec = NewDecoder(<<>>)
  /\ original_bytes = <<>>
  /\ comp = NewCompressor
  /\ cenv = IdleCompressorEnv
  /\ din = <<>>
  /\ dcm = NewDecompressor(<<>>)
  /\ denv = IdleDecompressorEnv
  /\ mdl = IdleModels
  /\ hook = IdleHooks

\* i >> 3 and i & 7 of a cell number.
Row8(cell) == cell \div 8
Col8(cell) == cell % 8

\* auto a = reverse_scan_8[scan_8[i] >> 3][scan_8[i] & 7], for one i of the loop.
TestScan8 ==
  /\ \E i \in 0..50 :
       tab' = [table |-> "scan_8", i |-> i,
               a |-> reverse_scan_8[Row8(scan_8[i])][Col8(scan_8[i])],
               zu |-> 0, uz |-> 0]
  /\ UNCHANGED nonTab

\* The zigzag and unzigzag tables of n entries.
zigzag(n) == CASE n = 4 -> zigzag4 [] n = 16 -> zigzag16 [] n = 64 -> zigzag64
unzigzag(n) == CASE n = 4 -> unzigzag4 [] n = 16 -> unzigzag16 [] n = 64 -> unzigzag64

\* zigzag[unzigzag[i]] and unzigzag[zigzag[i]], for one i of the loop and one table size.
TestZigzag ==
  /\ \E n \in {4, 16, 64} : \E i \in 0..(n - 1) :
       tab' = [table |-> "zigzag", i |-> i, a |-> r_scan8_inv,
               zu |-> zigzag(n)[unzigzag(n)[i]], uz |-> unzigzag(n)[zigzag(n)[i]]]
  /\ UNCHANGED nonTab

TabNext == TestScan8 \/ TestZigzag

-----------------------------------------------------------------------------
(* The neighbours get_model_key asks for *)

\* The calls of get_neighbor: a 4x4 block with or without its DC coefficient
\* or an 8x8 block, named by its first scan8 index, anywhere in a frame of two
\* by two macroblocks; and a DC block of 4 or 16 coefficients.
NeighborCalls ==
  LET coords(indexes, zigzags) ==
        {[mb_x |-> x, mb_y |-> y, scan8_index |-> k, zigzag_index |-> z] :
           x \in 0..1, y \in 0..1, k \in indexes, z \in zigzags}
      calls(sizes, indexes, zigzags) ==
        {[sub_mb_size |-> n, input |-> c] : n \in sizes, c \in coords(indexes, zigzags)}
  IN calls({15, 16}, 0..47, {0, 14})
       \cup calls({64}, {k \in 0..47 : k % 4 = 0}, {0, 62})
       \cup calls({4}, 48..50, 0..3)
       \cup calls({16}, 48..50, 0..15)

NeighborInit ==
  /\ tab = NoLookup
  /\ acRatio = 1
  /\ enc = NewEncoder(TRUE)
  /\ acPc = "idle"
  /\ bits = <<>>
  /\ probs = <<>>
  /\ dec = NewDecoder(<<>>)
  /\ original_bytes = <<>>
  /\ comp = NewCompressor
  /\ cenv = IdleCompressorEnv
  /\ din = <<>>
  /\ dcm = NewDecompressor(<<>>)
  /\ denv = IdleDecompressorEnv
  /\ mdl = IdleModels
  /\ hook = IdleHooks

\* get_neighbor(above, sub_mb_size, mb_coord, &neighbor) of get_model_key.
GetNeighbor ==
  /\ \E above \in BOOLEAN, call \in NeighborCalls :
       tab' = [table |-> "get_neighbor", above |-> above,
               sub_mb_size |-> call.sub_mb_size, input |-> call.input,
               neighbor |-> get_neighbor(above, call.sub_mb_size, call.input)]
  /\ UNCHANGED nonTab

\* The calls of get_neighbor_coefficient: every coefficient of a 2x2, a 4x4
\* block with or without its DC coefficient and an 8x8 block, and of a DC block.
CoefficientCalls ==
  LET calls(n, indexes) ==
        {[sub_mb_size |-> n,
          input |-> [mb_x |-> 1, mb_y |-> 1, scan8_index |-> k, zigzag_index |-> z]] :
           k \in indexes, z \in 0..(n - 1)}
  IN calls(4, {0, 48}) \cup calls(15, {0, 21}) \cup calls(16, {0, 21}) \cup calls(64, {0, 20})

\* get_neighbor_coefficient(above, sub_mb_size, mb_coord, &neighbor) of
\* get_model_key.
GetNeighborCoefficient ==
  /\ \E above \in BOOLEAN, call \in CoefficientCalls :
       tab' = [table |-> "get_neighbor_coefficient", above |-> above,
               sub_mb_size |-> call.sub_mb_size, input |-> call.input,
               neighbor |-> get_neighbor_coefficient(above, call.sub_mb_size, call.input)]
  /\ UNCHANGED nonTab

NeighborNext == GetNeighbor \/ GetNeighborCoefficient

-----------------------------------------------------------------------------
(* The compressor and the decompressor driven by the H.264 decoder *)

\* The files given to the compressor: one of distinct bytes that holds an
\* emulation prevention sequence 0 0 3, and one that repeats with a period one
\* longer than a surrogate marker.
PlainFile ==
  [i \in 1..FileLen |-> IF i \in {5, 6} THEN 0 ELSE IF i = 7 THEN 3 ELSE 10 + i]
RepeatingFile ==
  [i \in 1..FileLen |-> 40 + ((i - 1) % (SURROGATE_MARKER_BYTES + 1))]
Files == {PlainFile, RepeatingFile}

\* The sizes the decoder's I/O layer asks read_packet for.
ReadSizes == {ReadChunk, FileLen}

\* The lengths of the stored CABAC spans: shorter than a marker, as long as one,
\* and longer.
SpanLens == {2, SURROGATE_MARKER_BYTES, SURROGATE_MARKER_BYTES + 1}

\* The variables the splice operations leave alone.
nonSplice == <<acVars, tabVars, modelVars>>

RoundtripInit ==
  /\ original_bytes \in Files
  /\ comp = NewCompressor
  /\ cenv \in {NewCompressorEnv(a) : a \in BOOLEAN}
  /\ din = <<>>
  /\ dcm = NewDecompressor(<<>>)
  /\ denv = IdleDecompressorEnv
  /\ acRatio = 1
  /\ enc = NewEncoder(TRUE)
  /\ acPc = "idle"
  /\ bits = <<>>
  /\ probs = <<>>
  /\ dec = NewDecoder(<<>>)
  /\ tab = NoLookup
  /\ mdl = IdleModels
  /\ hook = IdleHooks

\* read_packet hook of the compressor.  Every read_packet call of a run goes
\* here: those of avformat_open_input and dump_stream_info too.
CReadPacket ==
  /\ cenv.pc = "decode"
  /\ \E size \in ReadSizes :
       /\ comp' = compressor_read_packet(comp, original_bytes, size)
       /\ cenv' = [cenv EXCEPT !.eof = @ \/ comp.read_offset = Len(original_bytes)]
  /\ UNCHANGED <<original_bytes, din, dcm, denv>>
  /\ UNCHANGED nonSplice

\* ~cabac_decoder() { assert(out == nullptr || out->has_cabac()); } fails for
\* the live sub-decoder.
CUnfilled == cenv.open # 0 /\ ~Has(comp.out[cenv.open].cabac)

\* init_decoder hook of the compressor: the decoder has parsed up to a CABAC
\* span stored at [q, q + len) of the bytes it was handed, after the spans it
\* announced before.  The new sub-decoder replaces the live one, which is
\* destroyed.
CInitCabacDecoder ==
  /\ cenv.pc = "decode"
  /\ Len(cenv.spans) < MaxSpans
  /\ \E q \in SpanEnd(cenv.spans)..comp.read_offset, len \in SpanLens :
       /\ q + len <= comp.read_offset
       /\ ~IsEscapeByte(original_bytes, q)
       /\ LET buf == SpanBuf(original_bytes, q, len)
              r == compressor_cabac_decoder(comp, original_bytes, buf, Len(buf))
          IN /\ comp' = r.c
             /\ cenv' = [cenv EXCEPT
                  !.spans = Append(@, [q |-> q, len |-> len]),
                  !.open = r.out,
                  !.pc = IF CUnfilled /\ cenv.asserts THEN "aborted" ELSE @]
  /\ UNCHANGED <<original_bytes, din, dcm, denv>>
  /\ UNCHANGED nonSplice

\* get_terminate hook of the compressor returning 1 for the live sub-decoder.
CGetTerminate ==
  /\ cenv.pc = "decode"
  /\ CUnfilled
  /\ LET span == cenv.spans[Len(cenv.spans)]
     IN comp' = set_cabac(comp, cenv.open, SpanBuf(original_bytes, span.q, span.len))
  /\ UNCHANGED <<original_bytes, cenv, din, dcm, denv>>
  /\ UNCHANGED nonSplice

\* compressor::run once decode_video has returned, the decoder having met the
\* end of its input; the sub-decoder still live is destroyed with d.
CRun ==
  /\ cenv.pc = "decode"
  /\ cenv.eof
  /\ comp' = compressor_run(comp, original_bytes)
  /\ cenv' = [cenv EXCEPT !.pc = IF CUnfilled /\ cenv.asserts THEN "aborted" ELSE "compressed"]
  /\ UNCHANGED <<original_bytes, din, dcm, denv>>
  /\ UNCHANGED nonSplice

\* roundtrip(): decompressor d(input_filename, compressed.str(), decompressed),
\* and the start of d.run().
MakeDecompressor ==
  /\ cenv.pc = "compressed"
  /\ denv.pc = "idle"
  /\ din' = comp.out
  /\ dcm' = NewDecompressor(comp.out)
  /\ denv' = NewDecompressorEnv(cenv.asserts)
  /\ UNCHANGED <<original_bytes, comp, cenv>>
  /\ UNCHANGED nonSplice

\* ~cabac_decoder() { assert(out->done); } fails for the live sub-decoder.
DUndone == denv.open # 0 /\ ~dcm.blocks[denv.open].done

\* The caller's state after a hook has thrown: the exception unwinds run(), and
\* destroys the live sub-decoder on its way.
Thrown(env, error) ==
  [env EXCEPT !.pc = "failed", !.error = error, !.aborted = env.asserts /\ DUndone]

\* read_packet hook of the decompressor.
DReadPacket ==
  /\ denv.pc = "decode"
  /\ \E size \in ReadSizes :
       LET r == decompressor_read_packet(din, dcm, size)
       IN /\ dcm' = r.d
          /\ denv' = IF r.error # "" THEN Thrown(denv, r.error)
                     ELSE [denv EXCEPT !.stream = @ \o r.bytes,
                                       !.eof = @ \/ r.bytes = <<>>]
  /\ UNCHANGED <<original_bytes, comp, cenv, din>>
  /\ UNCHANGED nonSplice

\* The init_decoder hook of the decompressor called with (buf, size): the new
\* sub-decoder is constructed, then replaces the live one, which is destroyed.
\* Reading blocks[next_coded_block] past the end of blocks is undefined: the
\* flag read there is either zero, and the bounds check throws, or not, and a
\* block that does not exist is used.
InitCabacDecoder(buf, size, garbage) ==
  LET r == decompressor_cabac_decoder(din, dcm, buf, size)
      call == [buf |-> buf, size |-> size, index |-> r.index]
      env == [denv EXCEPT !.calls = Append(@, call)]
  IN [d |-> r.d,
      env |-> IF r.error = "past_the_end"
              THEN Thrown(env, IF garbage THEN "undefined"
                               ELSE "Coded block expected, but not recorded in the compressed data.")
              ELSE IF r.error # ""
              THEN Thrown(env, r.error)
              ELSE [env EXCEPT !.open = IF r.model THEN r.index ELSE 0,
                               !.pc = IF denv.asserts /\ DUndone THEN "failed" ELSE @,
                               !.aborted = denv.asserts /\ DUndone]]

\* The decoder replays the span it announced to the compressor, reading it from
\* the stream the decompressor has handed out, once the span before it has ended.
RInitCabacDecoder ==
  /\ denv.pc = "decode"
  /\ cenv.pc = "compressed"
  /\ denv.next <= Len(cenv.spans)
  /\ ~DUndone
  /\ LET span == cenv.spans[denv.next]
         buf == SpanBuf(denv.stream, span.q, span.len)
     IN /\ span.q + span.len <= Len(denv.stream)
        /\ \E garbage \in BOOLEAN :
             LET r == InitCabacDecoder(buf, Len(buf), garbage)
             IN /\ dcm' = r.d
                /\ denv' = [r.env EXCEPT !.next = @ + 1]
  /\ UNCHANGED <<original_bytes, comp, cenv, din>>
  /\ UNCHANGED nonSplice

\* init_decoder hook of the decompressor, the decoder bound to no earlier run:
\* the buffer it announces is any stretch of the stream handed out so far.
DInitCabacDecoder ==
  /\ denv.pc = "decode"
  /\ cenv.pc = "idle"
  /\ Len(denv.calls) < MaxSpans
  /\ \E q \in 0..Len(denv.stream), len \in SpanLens, garbage \in BOOLEAN :
       /\ q + len <= Len(denv.stream)
       /\ LET r == InitCabacDecoder(Sub(denv.stream, q, len), len, garbage)
          IN /\ dcm' = r.d
             /\ denv' = r.env
  /\ UNCHANGED <<original_bytes, comp, cenv, din>>
  /\ UNCHANGED nonSplice

\* get_terminate hook of the decompressor returning 1 for the live sub-decoder:
\* finish() hands the emitted bytes to the block.
DGetTerminate ==
  /\ denv.pc = "decode"
  /\ DUndone
  /\ \E cabac_out \in EmittedForms(ValueOf(din[denv.open].cabac)) :
       dcm' = cabac_decoder_finish(dcm, denv.open, cabac_out)
  /\ denv' = [denv EXCEPT !.finished = @ \cup {denv.open}]
  /\ UNCHANGED <<original_bytes, comp, cenv, din>>
  /\ UNCHANGED nonSplice

\* The caller's state when run() ends after decode_video has returned; the
\* sub-decoder still live is destroyed with d.
AfterRun(env, r) ==
  [env EXCEPT !.returned = TRUE,
              !.pc = IF r.error = "" THEN "finished" ELSE "failed",
              !.error = r.error,
              !.written = r.written,
              !.aborted = env.asserts /\ DUndone]

\* decompressor::run once decode_video has returned, the decoder having replayed
\* every span and met the end of its input.
RRun ==
  /\ denv.pc = "decode"
  /\ cenv.pc = "compressed"
  /\ denv.eof
  /\ denv.next > Len(cenv.spans)
  /\ ~DUndone
  /\ denv' = AfterRun(denv, decompressor_run(dcm))
  /\ UNCHANGED <<original_bytes, comp, cenv, din, dcm>>
  /\ UNCHANGED nonSplice

\* decompressor::run once decode_video has returned, wherever the decoder stopped.
DRun ==
  /\ denv.pc = "decode"
  /\ cenv.pc = "idle"
  /\ denv' = AfterRun(denv, decompressor_run(dcm))
  /\ UNCHANGED <<original_bytes, comp, cenv, din, dcm>>
  /\ UNCHANGED nonSplice

\* Envelope blocks as a compressor makes them.
LiteralBlock(bytes) == [EmptyBlock EXCEPT !.literal = Some(bytes)]
CabacBlock(payload) ==
  [EmptyBlock EXCEPT !.cabac = Some(payload),
                     !.size = Some(Len(payload)),
                     !.length_parity = Some(Len(payload) % 2),
                     !.last_byte = Some(<<payload[Len(payload)]>>)]
SkipBlock(size) == [EmptyBlock EXCEPT !.skip_coded = Some(TRUE), !.size = Some(size)]

\* The payloads of the envelopes below: spans as long as a marker, and longer.
EvenPayload == [i \in 1..SURROGATE_MARKER_BYTES |-> 60 + i]
OddPayload == [i \in 1..(SURROGATE_MARKER_BYTES + 1) |-> 70 + i]

\* The envelopes given to the decompressor: well formed ones, and ones with a
\* CABAC block without size, with a size below the marker's, with a block of
\* no type, of two types, and with skip_coded set to false.
Envelopes ==
  { << LiteralBlock(<<1, 2, 3>>), CabacBlock(EvenPayload), LiteralBlock(<<4, 5>>),
       CabacBlock(OddPayload), SkipBlock(2), LiteralBlock(<<6, 7, 8>>) >>,
    << CabacBlock(EvenPayload), CabacBlock(EvenPayload) >>,
    << LiteralBlock(<<1, 2>>), [CabacBlock(EvenPayload) EXCEPT !.size = None] >>,
    << [CabacBlock(EvenPayload) EXCEPT !.size = Some(4)] >>,
    << LiteralBlock(<<1>>), EmptyBlock >>,
    << LiteralBlock(<<1, 2>>), [CabacBlock(EvenPayload) EXCEPT !.literal = Some(<<3>>)] >>,
    << LiteralBlock([i \in 1..ReadChunk |-> i]),
       [SkipBlock(2) EXCEPT !.skip_coded = Some(FALSE)] >> }

DecompressInit ==
  /\ original_bytes = <<>>
  /\ comp = NewCompressor
  /\ cenv = IdleCompressorEnv
  /\ din \in Envelopes
  /\ dcm = NewDecompressor(din)
  /\ denv \in {NewDecompressorEnv(a) : a \in BOOLEAN}
  /\ acRatio = 1
  /\ enc = NewEncoder(TRUE)
  /\ acPc = "idle"
  /\ bits = <<>>
  /\ probs = <<>>
  /\ dec = NewDecoder(<<>>)
  /\ tab = NoLookup
  /\ mdl = IdleModels
  /\ hook = IdleHooks

RoundtripNext ==
  \/ CReadPacket \/ CInitCabacDecoder \/ CGetTerminate \/ CRun
  \/ MakeDecompressor
  \/ DReadPacket \/ RInitCabacDecoder \/ DGetTerminate \/ RRun

DecompressNext == DReadPacket \/ DInitCabacDecoder \/ DGetTerminate \/ DRun

-----------------------------------------------------------------------------
(* Two models under one decoder *)

\* Both models take the same call.
\* The variables the model hooks leave alone.
nonModel == <<acVars, tabVars, spliceVars>>

\* model_hooks::mb_xy, begin_sub_mb and end_sub_mb on the model
mb_xy(m, x, y) == [m EXCEPT !.mb_coord.mb_x = x, !.mb_coord.mb_y = y]
begin_sub_mb(m, sub) ==
  [m EXCEPT !.sub_mb_cat = sub.cat,
            !.mb_coord.scan8_index = sub.scan8index,
            !.sub_mb_size = sub.max_coeff,
            !.sub_mb_is_dc = sub.is_dc,
            !.sub_mb_chroma422 = sub.chroma422]
end_sub_mb(m, sub) ==
  [m EXCEPT !.sub_mb_cat = -1,
            !.mb_coord.scan8_index = -1,
            !.sub_mb_size = -1,
            !.sub_mb_is_dc = 0,
            !.sub_mb_chroma422 = 0,
            !.aborted = @ \/ m.sub_mb_cat # sub.cat
                          \/ m.mb_coord.scan8_index # sub.scan8index
                          \/ m.sub_mb_size # sub.max_coeff
                          \/ m.sub_mb_is_dc # sub.is_dc
                          \/ m.sub_mb_chroma422 # sub.chroma422]

\* decompressor_hook as it would be if the emit coder belonged to the
\* decompressor and not to the sub-decoder.
decompressor_hook_SharedEmit(m, call, ac) ==
  LET got(m1) == [m1 EXCEPT !.diverged = IF @ = "" /\ m1.ret # call.symbol
                                         THEN "symbol" ELSE @]
  IN CASE call.op = "frame_spec" ->
            update_frame_spec(m, call.frame_num, call.mb_width, call.mb_height)
       [] call.op = "init_decoder" ->
            [m EXCEPT !.at = call.start, !.has_model = ~call.skipped]
       [] call.op = "mb_xy" -> mb_xy(m, call.x, call.y)
       [] call.op = "begin_sub_mb" -> begin_sub_mb(m, call.sub)
       [] call.op = "end_sub_mb" -> end_sub_mb(m, call.sub)
       [] call.op = "begin_coding_type" ->
            decompressor_begin_coding_type(m, call.ct, call.zigzag_index, ac)
       [] call.op = "end_coding_type" -> decompressor_end_coding_type(m, call.ct)
       [] call.op = "get" -> got(decompressor_get(m, call.state, call.byte, ac))
       [] call.op = "get_bypass" -> got(decompressor_get_bypass(m, ac))
       [] call.op = "get_terminate" -> got(decompressor_get_terminate(m, ac))

\* A hook called under Driver = decompressor.  A get returns the symbol to the
\* decoder, which reads on as the original decoder did only when the symbol is
\* the one the original decoder was given.
decompressor_hook(m, call, ac) ==
  LET got(m1) == [m1 EXCEPT !.diverged = IF @ = "" /\ m1.ret # call.symbol
                                         THEN "symbol" ELSE @]
  IN CASE call.op = "frame_spec" ->
            update_frame_spec(m, call.frame_num, call.mb_width, call.mb_height)
       [] call.op = "init_decoder" ->
            [m EXCEPT !.at = call.start, !.has_model = ~call.skipped,
                      !.cabac_encoder = NewCabacEncoder]
       [] call.op = "mb_xy" -> mb_xy(m, call.x, call.y)
       [] call.op = "begin_sub_mb" -> begin_sub_mb(m, call.sub)
       [] call.op = "end_sub_mb" -> end_sub_mb(m, call.sub)
       [] call.op = "begin_coding_type" ->
            decompressor_begin_coding_type(m, call.ct, call.zigzag_index, ac)
       [] call.op = "end_coding_type" -> decompressor_end_coding_type(m, call.ct)
       [] call.op = "get" -> got(decompressor_get(m, call.state, call.byte, ac))
       [] call.op = "get_bypass" -> got(decompressor_get_bypass(m, ac))
       [] call.op = "get_terminate" -> got(decompressor_get_terminate(m, ac))

\* The decompress side makes the calls it has not made yet, ac being what the
\* compress side has put; it stops where the decoder would leave the path of
\* the original decoder.
RECURSIVE Replay(_, _)
Replay(m, ac) ==
  IF m.pending = <<>> \/ m.aborted \/ m.diverged # ""
  THEN [m EXCEPT !.pending = <<>>]
  ELSE Replay(decompressor_hook([m EXCEPT !.pending = Tail(@)], Head(m.pending), ac), ac)

\* Every model takes the call: the model of a compressor at once, the model of
\* a decompressor when the compressor has encoded what the call decodes.
Both(op(_), call) ==
  [i \in Instances |->
     IF mdl[i].side = "compress"
     THEN op(mdl[i])
     ELSE IF mdl[i].aborted \/ mdl[i].diverged # ""
     THEN mdl[i]
     ELSE [mdl[i] EXCEPT !.pending = Append(@, call)]]

\* The decompressor has calls to make whose symbols the first model, which
\* belongs to the compressor, has encoded: a coding type or a slice has ended.
ReplayDue ==
  \E i \in Instances :
    /\ mdl[i].side = "decompress" /\ mdl[i].pending # <<>>
    /\ \/ mdl[i].pending[Len(mdl[i].pending)].op \in {"end_coding_type", "get_terminate"}
       \/ hook.skipped
Running == (\A i \in Instances : ~mdl[i].aborted) /\ ~ReplayDue
Hooked(pc) == [hook EXCEPT !.pc = pc, !.nhooks = @ + 1]

ModelInit ==
  /\ acRatio = 1
  /\ enc = NewEncoder(TRUE)
  /\ acPc = "idle"
  /\ bits = <<>>
  /\ probs = <<>>
  /\ dec = NewDecoder(<<>>)
  /\ tab = NoLookup
  /\ original_bytes = <<>>
  /\ comp = NewCompressor
  /\ cenv = IdleCompressorEnv
  /\ din = <<>>
  /\ dcm = NewDecompressor(<<>>)
  /\ denv = IdleDecompressorEnv
  /\ \E junk \in [Instances -> Junk] : mdl = [i \in Instances |-> NewModel(BaseOf(i), junk[i])]
  /\ hook = NewHooks

\* The model of a compressor and the model of the decompressor that is given
\* what the compressor wrote, under decoders of the same video.
RecodeInit ==
  /\ acRatio = 1
  /\ enc = NewEncoder(TRUE)
  /\ acPc = "idle"
  /\ bits = <<>>
  /\ probs = <<>>
  /\ dec = NewDecoder(<<>>)
  /\ tab = NoLookup
  /\ original_bytes = <<>>
  /\ comp = NewCompressor
  /\ cenv = IdleCompressorEnv
  /\ din = <<>>
  /\ dcm = NewDecompressor(<<>>)
  /\ denv = IdleDecompressorEnv
  /\ \E junk \in [Instances -> Junk] :
       mdl = [i \in Instances |->
                [NewModel(BaseOf(i), junk[i]) EXCEPT !.side = IF i = 1 THEN "compress"
                                                              ELSE "decompress"]]
  /\ hook = NewRecodeHooks

\* The model of a compressor and the model of the decompressor that is given
\* what the compressor wrote, under decoders of a video with spans that are not
\* recoded.
SkipInit ==
  /\ acRatio = 1
  /\ enc = NewEncoder(TRUE)
  /\ acPc = "idle"
  /\ bits = <<>>
  /\ probs = <<>>
  /\ dec = NewDecoder(<<>>)
  /\ tab = NoLookup
  /\ original_bytes = <<>>
  /\ comp = NewCompressor
  /\ cenv = IdleCompressorEnv
  /\ din = <<>>
  /\ dcm = NewDecompressor(<<>>)
  /\ denv = IdleDecompressorEnv
  /\ \E junk \in [Instances -> Junk] :
       mdl = [i \in Instances |->
                [NewModel(BaseOf(i), junk[i]) EXCEPT !.side = IF i = 1 THEN "compress"
                                                              ELSE "decompress"]]
  /\ hook = NewSkipHooks

\* The models driven by the decoder of a video whose frames change size.
FramesInit ==
  /\ acRatio = 1
  /\ enc = NewEncoder(TRUE)
  /\ acPc = "idle"
  /\ bits = <<>>
  /\ probs = <<>>
  /\ dec = NewDecoder(<<>>)
  /\ tab = NoLookup
  /\ original_bytes = <<>>
  /\ comp = NewCompressor
  /\ cenv = IdleCompressorEnv
  /\ din = <<>>
  /\ dcm = NewDecompressor(<<>>)
  /\ denv = IdleDecompressorEnv
  /\ \E junk \in [Instances -> Junk] : mdl = [i \in Instances |-> NewModel(BaseOf(i), junk[i])]
  /\ hook = NewFrameHooks

\* model_hooks::frame_spec(opaque, frame_num, mb_width, mb_height)
MFrameSpec ==
  \E frame_num \in hook.frame_nums, size \in hook.frame_sizes :
    /\ hook.pc = "start" /\ Running /\ hook.nhooks < hook.max_hooks
    /\ mdl' = Both(LAMBDA m : update_frame_spec(m, frame_num, size[1], size[2]),
                   [op |-> "frame_spec", frame_num |-> frame_num,
                    mb_width |-> size[1], mb_height |-> size[2]])
    /\ hook' = [Hooked("spec") EXCEPT !.frame_num = frame_num,
                                      !.width = size[1], !.height = size[2]]
    /\ UNCHANGED nonModel

\* cabac::init_decoder for a span that is recoded: a cabac_decoder with an
\* empty queue, and model->reset().
MInitDecoder ==
  /\ hook.pc = "spec" /\ Running /\ hook.nhooks < hook.max_hooks
  /\ mdl' = Both(LAMBDA m : [m EXCEPT !.queueing_symbols = "PIP_UNKNOWN",
                                      !.symbol_buffer = <<>>,
                                      !.has_model = TRUE,
                                      !.encoder = NewEncoder(TRUE)],
                 [op |-> "init_decoder", start |-> Len(mdl[1].puts), skipped |-> FALSE])
  /\ hook' = [Hooked("slice") EXCEPT !.mbs_read = {}, !.skipped = FALSE]
  /\ UNCHANGED nonModel

\* cabac::init_decoder for a span that is not recoded: a cabac_decoder without
\* a model, and the context's coding hooks taken away.
MInitSkippedDecoder ==
  /\ hook.pc = "spec" /\ Running /\ hook.nhooks < hook.max_hooks
  /\ mdl' = Both(LAMBDA m : [m EXCEPT !.queueing_symbols = "PIP_UNKNOWN",
                                      !.symbol_buffer = <<>>,
                                      !.has_model = FALSE,
                                      !.encoder = NewEncoder(TRUE)],
                 [op |-> "init_decoder", start |-> Len(mdl[1].puts), skipped |-> TRUE])
  /\ hook' = [Hooked("slice") EXCEPT !.mbs_read = {}, !.skipped = TRUE]
  /\ UNCHANGED nonModel

\* model_hooks::mb_xy(opaque, x, y)
MMbXy ==
  \E x \in 0..(hook.width - 1), y \in 0..(hook.height - 1) :
    /\ hook.pc = "slice" /\ Running /\ hook.nhooks < hook.max_hooks
    /\ <<x, y>> \notin hook.mbs_read
    /\ mdl' = Both(LAMBDA m : mb_xy(m, x, y), [op |-> "mb_xy", x |-> x, y |-> y])
    /\ hook' = [Hooked("mb") EXCEPT !.mbs_read = @ \cup {<<x, y>>}, !.subs_read = {}]
    /\ UNCHANGED nonModel

\* model_hooks::begin_sub_mb(opaque, cat, scan8index, max_coeff, is_dc, chroma422)
MBeginSubMb ==
  \E sub \in hook.sub_mbs \ hook.subs_read :
    /\ hook.pc = "mb" /\ Running /\ hook.nhooks < hook.max_hooks
    /\ mdl' = Both(LAMBDA m : begin_sub_mb(m, sub), [op |-> "begin_sub_mb", sub |-> sub])
    /\ hook' = [Hooked("sub") EXCEPT !.sub = sub, !.stage = "map",
                                     !.subs_read = @ \cup {sub}]
    /\ UNCHANGED nonModel

\* model_hooks::end_sub_mb(opaque, cat, scan8index, max_coeff, is_dc, chroma422)
MEndSubMb ==
  /\ hook.pc = "sub" /\ hook.stage \in {"levels", "end"}
  /\ Running /\ hook.nhooks < hook.max_hooks
  /\ mdl' = Both(LAMBDA m : end_sub_mb(m, hook.sub), [op |-> "end_sub_mb", sub |-> hook.sub])
  /\ hook' = [Hooked("mb") EXCEPT !.sub = NoSubMb, !.stage = "none"]
  /\ UNCHANGED nonModel

\* model_hooks::begin_coding_type(opaque, ct, zigzag_index, param0, param1):
\* the decoder reads the significance map of a sub-block, then its levels.
MBeginCodingType ==
  \E ct \in {"PIP_SIGNIFICANCE_MAP", "PIP_RESIDUALS"} :
    /\ hook.pc = "sub" /\ Running /\ hook.nhooks < hook.max_hooks
    /\ hook.stage = (IF ct = "PIP_SIGNIFICANCE_MAP" THEN "map" ELSE "levels")
    /\ mdl' = Both(LAMBDA m : cabac_decoder_begin_coding_type(m, ct, 0),
                   [op |-> "begin_coding_type", ct |-> ct, zigzag_index |-> 0])
    /\ hook' = [Hooked("coding") EXCEPT !.ct = ct, !.z = 0, !.last = FALSE]
    /\ UNCHANGED nonModel

\* The decoder has read the whole significance map of the sub-block: a
\* coefficient was the last one, or only the final coefficient is left.
MapRead == hook.z >= hook.sub.max_coeff - 1

\* model_hooks::end_coding_type(opaque, ct)
MEndCodingType ==
  /\ hook.pc = "coding" /\ Running /\ hook.nhooks < hook.max_hooks
  /\ (hook.ct = "PIP_SIGNIFICANCE_MAP" /\ ~hook.skipped) => MapRead
  /\ mdl' = Both(LAMBDA m : cabac_decoder_end_coding_type(m, hook.ct),
                 [op |-> "end_coding_type", ct |-> hook.ct])
  /\ hook' = [Hooked("sub") EXCEPT !.ct = "PIP_UNKNOWN",
                                   !.stage = IF hook.ct = "PIP_SIGNIFICANCE_MAP"
                                             THEN "levels" ELSE "end"]
  /\ UNCHANGED nonModel

\* cabac::get(opaque, state) while the decoder reads a significance map: the
\* flag of coefficient z, and after a flag of 1 whether it was the last one.
MGetSignificance ==
  \E symbol \in 0..1, state \in {IF hook.last THEN last_coeff_ctx ELSE significant_coeff_ctx},
     byte \in hook.state_bytes :
    /\ hook.pc = "coding" /\ hook.ct = "PIP_SIGNIFICANCE_MAP" /\ ~MapRead
    /\ ~hook.skipped
    /\ Running /\ hook.nsym < hook.max_symbols
    /\ mdl' = Both(LAMBDA m : execute_symbol(m, symbol, state),
                   [op |-> "get", state |-> state, byte |-> byte, symbol |-> symbol])
    /\ hook' = [hook EXCEPT !.nsym = @ + 1,
                            !.last = ~hook.last /\ symbol = 1,
                            !.z = IF hook.last
                                  THEN (IF symbol = 1 THEN hook.sub.max_coeff ELSE @ + 1)
                                  ELSE (IF symbol = 1 THEN @ ELSE @ + 1)]
    /\ UNCHANGED nonModel

\* cabac::get(opaque, state) while the decoder reads the levels
MGet ==
  \E symbol \in 0..1, state \in {coeff_abs_level_ctx}, byte \in hook.state_bytes :
    /\ hook.pc = "coding" /\ hook.ct = "PIP_RESIDUALS"
    /\ ~hook.skipped
    /\ Running /\ hook.nsym < hook.max_symbols
    /\ mdl' = Both(LAMBDA m : execute_symbol(m, symbol, state),
                   [op |-> "get", state |-> state, byte |-> byte, symbol |-> symbol])
    /\ hook' = [hook EXCEPT !.nsym = @ + 1]
    /\ UNCHANGED nonModel

\* cabac::get_bypass(opaque)
MGetBypass ==
  \E symbol \in 0..1 :
    /\ hook.pc = "coding" /\ hook.ct = "PIP_RESIDUALS"
    /\ ~hook.skipped
    /\ Running /\ hook.nsym < hook.max_symbols
    /\ mdl' = Both(LAMBDA m : execute_symbol(m, symbol, bypass_context(m)),
                   [op |-> "get_bypass", symbol |-> symbol])
    /\ hook' = [hook EXCEPT !.nsym = @ + 1]
    /\ UNCHANGED nonModel

\* cabac::get_terminate(opaque), at the end of a macroblock
MGetTerminate ==
  \E symbol \in 0..1 :
    /\ hook.pc = "mb" /\ Running /\ hook.nsym < hook.max_symbols
    /\ ~hook.skipped
    /\ mdl' = Both(LAMBDA m : execute_symbol(m, symbol, terminate_context(m)),
                   [op |-> "get_terminate", symbol |-> symbol])
    /\ hook' = [hook EXCEPT !.nsym = @ + 1,
                            !.pc = IF symbol = 1 THEN "start" ELSE "slice"]
    /\ UNCHANGED nonModel

\* The end of a macroblock of a span that is not recoded: the decoder reads
\* the terminate symbol with its own CABAC decoder and calls no hook.
MSkippedTerminate ==
  \E symbol \in 0..1 :
    /\ hook.pc = "mb" /\ Running /\ hook.nhooks < hook.max_hooks
    /\ hook.skipped
    /\ hook' = Hooked(IF symbol = 1 THEN "start" ELSE "slice")
    /\ UNCHANGED <<mdl, nonModel>>

\* The walk states in which an estimator is updated many times over: the first
\* flag of a significance map, the first bit of an NZ prefix, a level.
EstimatorTypes == {"PIP_SIGNIFICANCE_MAP", "PIP_SIGNIFICANCE_NZ", "PIP_RESIDUALS"}

\* A model at that point of a luma 4x4 block.
EstimatorModel(ct) ==
  LET m == begin_sub_mb(mb_xy(update_frame_spec(NewModel(BaseOf(1), 0), 1, 1, 1), 0, 0),
                        Luma4x4(0))
  IN CASE ct = "PIP_SIGNIFICANCE_MAP" -> begin_coding_type(m, ct, 0)
       [] ct = "PIP_SIGNIFICANCE_NZ" ->
            [begin_coding_type(m, "PIP_SIGNIFICANCE_MAP", 0) EXCEPT !.coding_type = ct]
       [] ct = "PIP_RESIDUALS" -> begin_coding_type(m, ct, 0)

\* The key the symbol is coded under at that point.
EstimatorKey(m) ==
  CASE m.coding_type = "PIP_SIGNIFICANCE_MAP" -> get_model_key(m, significant_coeff_ctx)
    [] m.coding_type = "PIP_SIGNIFICANCE_NZ" -> NumNonzeroBitKey(m, 0, 0)
    [] m.coding_type = "PIP_RESIDUALS" -> get_model_key(m, coeff_abs_level_ctx)

EstimatorInit ==
  /\ acRatio = 1
  /\ enc = NewEncoder(TRUE)
  /\ acPc = "idle"
  /\ bits = <<>>
  /\ probs = <<>>
  /\ dec = NewDecoder(<<>>)
  /\ tab = NoLookup
  /\ original_bytes = <<>>
  /\ comp = NewCompressor
  /\ cenv = IdleCompressorEnv
  /\ din = <<>>
  /\ dcm = NewDecompressor(<<>>)
  /\ denv = IdleDecompressorEnv
  /\ \E ct \in EstimatorTypes :
       mdl = [i \in Instances |-> IF i = 1 THEN EstimatorModel(ct) ELSE NewModel(BaseOf(i), 0)]
  /\ hook = [IdleHooks EXCEPT !.pc = "estimator"]

\* The symbol coded at that point of one more sub-block: update_state_for_model_key
\* on the estimator of the key, the walk starting over.
EUpdate ==
  \E symbol \in 0..1 :
    /\ hook.pc = "estimator"
    /\ mdl' = [mdl EXCEPT ![1].estimators =
                  update_state_for_model_key(mdl[1], symbol, EstimatorKey(mdl[1])).estimators]
    /\ UNCHANGED <<hook, nonModel>>

EstimatorNext == EUpdate

\* decompressor::run on what the compressor has written so far: the hooks are
\* called as they were under the compressor.
MDecode ==
  /\ ReplayDue /\ ~mdl[1].aborted
  /\ mdl' = [i \in Instances |->
               IF mdl[i].side = "decompress" THEN Replay(mdl[i], mdl[1].puts) ELSE mdl[i]]
  /\ UNCHANGED <<hook, nonModel>>

ModelNext ==
  \/ MFrameSpec \/ MInitDecoder \/ MMbXy \/ MBeginSubMb \/ MEndSubMb
  \/ MBeginCodingType \/ MEndCodingType
  \/ MGetSignificance \/ MGet \/ MGetBypass \/ MGetTerminate

-----------------------------------------------------------------------------
(* Specifications *)

SpecAC == ACInit /\ [][ACNext]_vars

SpecTab == TabInit /\ [][TabNext]_vars

SpecRoundtrip == RoundtripInit /\ [][RoundtripNext]_vars

SpecDecompress == DecompressInit /\ [][DecompressNext]_vars

SpecModel == ModelInit /\ [][ModelNext]_vars

RecodeNext == ModelNext \/ MDecode

SpecRecode == RecodeInit /\ [][RecodeNext]_vars

SpecEstimator == EstimatorInit /\ [][EstimatorNext]_vars

SpecFrames == FramesInit /\ [][ModelNext]_vars

SpecNeighbor == NeighborInit /\ [][NeighborNext]_vars

SkipNext == RecodeNext \/ MInitSkippedDecoder \/ MSkippedTerminate

SpecSkip == SkipInit /\ [][SkipNext]_vars

-----------------------------------------------------------------------------
(* Claims about the compressor and the decompressor *)

\* A block of the envelope that stands for a recoded span: neither a literal nor
\* a skip marker.
IsRecodedBlock(block) == ~Has(block.literal) /\ ~Has(block.skip_coded)

\* The decoder reached the terminate symbol of every span that was recoded.
EverySpanTerminated ==
  \A i \in 1..Len(comp.out) : IsRecodedBlock(comp.out[i]) => Has(comp.out[i].cabac)

\* C1: for every file the compressor accepts, the decoder having decoded every
\* span to its end, the decompressor run on the envelope the compressor made
\* ends without error and has written exactly the bytes of the file.
Roundtrip_ByteExact ==
  (cenv.pc = "compressed" /\ EverySpanTerminated /\ denv.pc \in {"finished", "failed"}) =>
    (denv.error = "" /\ ~denv.aborted /\ denv.written = original_bytes)

RECURSIVE TileEnd(_, _, _, _)
\* Where the blocks out[i..] end in the file when out[i] starts at offset at: a
\* literal covers its own bytes, a recoded block the size bytes of its matched
\* region, a skip marker nothing.  -1 when a block's bytes are not those of the
\* file at its place.
TileEnd(file, out, i, at) ==
  IF i > Len(out) THEN at
  ELSE LET block == out[i]
           n == IF Has(block.literal) THEN Len(ValueOf(block.literal))
                ELSE IF Has(block.skip_coded) THEN 0
                ELSE SizeOf(block)
           bytes == IF Has(block.literal) THEN ValueOf(block.literal)
                    ELSE IF Has(block.cabac) THEN ValueOf(block.cabac)
                    ELSE Sub(file, at, n)
       IN IF at + n > Len(file) \/ Sub(file, at, n) # bytes
          THEN -1
          ELSE TileEnd(file, out, i + 1, at + n)

\* C2: after compressor.run the blocks of the envelope, taken in order, tile the
\* file: the literal blocks and the matched regions of the recoded blocks are
\* consecutive ranges from offset 0 to the file's size, each holding the bytes
\* of the file at its place, and skip markers take up no bytes.
Compress_BlocksTileSource ==
  cenv.pc = "compressed" => TileEnd(original_bytes, comp.out, 1, 0) = Len(original_bytes)

\* A run that recoded a span found after a gap, skipped another, and closed the
\* envelope with a final literal that is not empty.
Compress_BlocksTileSource_Witness ==
  /\ cenv.pc = "compressed"
  /\ \E i \in 1..(Len(comp.out) - 1) :
       /\ Has(comp.out[i].literal)
       /\ ValueOf(comp.out[i].literal) # <<>>
       /\ Has(comp.out[i + 1].cabac)
  /\ \E i \in 1..Len(comp.out) : Has(comp.out[i].skip_coded)
  /\ ValueOf(comp.out[Len(comp.out)].literal) # <<>>

\* The first n bytes of buf, all of buf when it is shorter.
Prefix(buf, n) == SubSeq(buf, 1, Min2(n, Len(buf)))

\* The surrogate marker read_packet assigns to CABAC block i of the envelope:
\* that of the number of CABAC blocks up to it.
MarkerOfBlock(in, i) ==
  surrogate_marker_of(Cardinality({j \in 1..i : Has(in[j].cabac)}))

\* The coded blocks of the envelope still pending at call k: those after the
\* block the call before was matched to.
PendingAt(in, calls, k) ==
  LET prev == IF k = 1 THEN 0 ELSE calls[k - 1].index
  IN {i \in (prev + 1)..Len(in) : Has(in[i].cabac) \/ Has(in[i].skip_coded)}

\* C7: on the decompress path every init_cabac_decoder(buf, size) call matched
\* to a CABAC block is matched to the next pending coded block, the first 8
\* bytes of buf are the surrogate marker of that block and size is its size
\* field; a call that meets a pending CABAC block with another marker or size
\* is matched to nothing, ends the run with an exception, and the block is
\* neither decoded nor done.
Decompress_CallsMatchMarkers ==
  \A k \in 1..Len(denv.calls) :
    LET call == denv.calls[k]
        pending == PendingAt(din, denv.calls, k)
    IN /\ (call.index # 0 /\ Has(din[call.index].cabac)) =>
            /\ call.index \in pending
            /\ \A i \in pending : call.index <= i
            /\ Prefix(call.buf, 8) = MarkerOfBlock(din, call.index)
            /\ call.size = SizeOf(din[call.index])
       /\ \A i \in pending :
            ( /\ \A j \in pending : i <= j
              /\ Has(din[i].cabac)
              /\ Prefix(call.buf, 8) # MarkerOfBlock(din, i) \/ call.size # SizeOf(din[i]) ) =>
            /\ call.index = 0
            /\ k = Len(denv.calls)
            /\ denv.pc = "failed"
            /\ denv.error # ""
            /\ ~denv.returned
            /\ denv.open # i
            /\ i \notin denv.finished
            /\ ~dcm.blocks[i].done

\* The first call was matched to a CABAC block, whose span was decoded to its
\* end; the second brought the size of the next CABAC block but not its marker.
Decompress_CallsMatchMarkers_Witness ==
  /\ Len(denv.calls) = 2
  /\ denv.calls[1].index # 0
  /\ Has(din[denv.calls[1].index].cabac)
  /\ denv.calls[1].index \in denv.finished
  /\ denv.calls[2].index = 0
  /\ \E i \in 1..Len(din) :
       /\ i > denv.calls[1].index
       /\ Has(din[i].cabac)
       /\ denv.calls[2].size = SizeOf(din[i])
       /\ Prefix(denv.calls[2].buf, 8) # MarkerOfBlock(din, i)
  /\ denv.error = "Invalid surrogate marker in coded block."

\* C8: on the decompress path the calls are matched to coded blocks in strictly
\* increasing envelope order, so each coded block at most once; run ends without
\* error only if every block of the envelope is done, every CABAC block having
\* been matched and decoded to its end; and when decode_video has returned with
\* a CABAC block not matched or not decoded to its end, run throws
\* "Not all blocks were decoded.".
Decompress_InOrderAllDone ==
  /\ \A j, k \in 1..Len(denv.calls) :
       (j < k /\ denv.calls[j].index # 0 /\ denv.calls[k].index # 0) =>
         denv.calls[j].index < denv.calls[k].index
  /\ denv.pc = "finished" =>
       /\ denv.returned
       /\ \A i \in 1..Len(din) : dcm.blocks[i].done
       /\ \A i \in 1..Len(din) : Has(din[i].cabac) =>
            /\ i \in denv.finished
            /\ \E k \in 1..Len(denv.calls) : denv.calls[k].index = i
  /\ (denv.returned /\ \E i \in 1..Len(din) : Has(din[i].cabac) /\ i \notin denv.finished) =>
       /\ denv.pc = "failed"
       /\ denv.error = "Not all blocks were decoded."

\* decode_video has returned after two calls matched in order to the two CABAC
\* blocks of an envelope, the first span decoded to its end and the second not,
\* and run has thrown.
Decompress_InOrderAllDone_Witness ==
  /\ denv.returned
  /\ Len(denv.calls) = 2
  /\ denv.calls[1].index # 0
  /\ denv.calls[1].index < denv.calls[2].index
  /\ Has(din[denv.calls[1].index].cabac)
  /\ Has(din[denv.calls[2].index].cabac)
  /\ denv.calls[1].index \in denv.finished
  /\ denv.calls[2].index \notin denv.finished
  /\ denv.error = "Not all blocks were decoded."

\* The offsets in the window [prev_coded_block_end, read_offset) of c at which
\* the bytes of buf lie.
MatchesInWindow(c, file, buf) ==
  {p \in c.prev_coded_block_end..(c.read_offset - Len(buf)) : Sub(file, p, Len(buf)) = buf}

\* C9: when init_cabac_decoder(buf, size) fires at compress time and a match of
\* buf lies in [prev_coded_block_end, read_offset) and size >= 8, a literal for
\* the gap up to the match and then a recoded block of that size are appended,
\* the recoded block is the one the sub-decoder fills, and prev_coded_block_end
\* becomes match_start + size; otherwise one skip_coded block carrying size is
\* appended, no literal, and prev_coded_block_end stays.
Compress_RecodedIffMatched ==
  [][Len(cenv'.spans) = Len(cenv.spans) + 1 =>
       LET span == cenv'.spans[Len(cenv'.spans)]
           buf == SpanBuf(original_bytes, span.q, span.len)
           size == Len(buf)
           matches == MatchesInWindow(comp, original_bytes, buf)
       IN IF matches # {} /\ size >= 8
          THEN \E match_start \in matches :
                 /\ Len(comp'.out) = Len(comp.out) + 2
                 /\ SubSeq(comp'.out, 1, Len(comp.out)) = comp.out
                 /\ comp'.out[Len(comp.out) + 1] =
                      [EmptyBlock EXCEPT !.literal =
                         Some(Sub(original_bytes, comp.prev_coded_block_end,
                                  match_start - comp.prev_coded_block_end))]
                 /\ IsRecodedBlock(comp'.out[Len(comp.out) + 2])
                 /\ comp'.out[Len(comp.out) + 2].size = Some(size)
                 /\ cenv'.open = Len(comp.out) + 2
                 /\ comp'.prev_coded_block_end = match_start + size
          ELSE /\ comp'.out = Append(comp.out, [EmptyBlock EXCEPT !.skip_coded = Some(TRUE),
                                                                  !.size = Some(size)])
               /\ cenv'.open = 0
               /\ comp'.prev_coded_block_end = comp.prev_coded_block_end
  ]_vars

\* Two init calls have fired: one whose span is as long as a marker but has no
\* match, an emulation prevention byte lying inside its stored bytes, and one
\* whose span was found after a gap and was recoded.
Compress_RecodedIffMatched_Witness ==
  /\ \E i \in 1..Len(comp.out) :
       Has(comp.out[i].skip_coded) /\ SizeOf(comp.out[i]) >= SURROGATE_MARKER_BYTES
  /\ \E i \in 1..(Len(comp.out) - 1) :
       /\ Has(comp.out[i].literal)
       /\ ValueOf(comp.out[i].literal) # <<>>
       /\ IsRecodedBlock(comp.out[i + 1])
       /\ cenv.open = i + 1

\* The blocks of the envelope that are not literals, in order.
CodedBlocks(out) == SelectSeq(out, LAMBDA block : ~Has(block.literal))

\* The index in out of its k-th block that is not a literal.
CodedBlockIndex(out, k) ==
  CHOOSE i \in 1..Len(out) :
    /\ ~Has(out[i].literal)
    /\ Len(CodedBlocks(SubSeq(out, 1, i))) = k

\* Where block i of out starts in the file.
BlockStart(file, out, i) == TileEnd(file, SubSeq(out, 1, i - 1), 1, 0)

\* C10: after compressor.run the blocks of the envelope that are not literals
\* correspond one-to-one and in order with the init_cabac_decoder calls, each
\* a recoded block or a skip marker of the call's size, and the stored bytes of
\* every skipped span lie within a literal block that comes later in the
\* envelope than the span's skip marker.
Compress_NeverDropsSpan ==
  cenv.pc = "compressed" =>
    /\ Len(CodedBlocks(comp.out)) = Len(cenv.spans)
    /\ \A k \in 1..Len(cenv.spans) :
         LET span == cenv.spans[k]
             i == CodedBlockIndex(comp.out, k)
         IN /\ comp.out[i].size = Some(Len(SpanBuf(original_bytes, span.q, span.len)))
            /\ Has(comp.out[i].skip_coded) =>
                 \E j \in (i + 1)..Len(comp.out) :
                   /\ Has(comp.out[j].literal)
                   /\ BlockStart(original_bytes, comp.out, j) <= span.q
                   /\ span.q + span.len <= BlockStart(original_bytes, comp.out, j)
                                             + Len(ValueOf(comp.out[j].literal))

-----------------------------------------------------------------------------
(* Claims about the arithmetic coder *)

\* C3: decoding the digits produced by put(B[i], P[i]) for all i followed by
\* finish, with the same probability functions, returns exactly B: every symbol
\* get has returned equals the symbol of the matching put.
AC_RoundTrip ==
  acPc = "get" => dec.syms = SubSeq(bits, 1, Len(dec.syms))

\* C4: a second call of finish emits no further digits.
AC_FinishIdempotent ==
  [][(acPc = "finished" /\ acPc' = "finished2") => enc'.out = enc.out]_vars

-----------------------------------------------------------------------------
(* Claims about the scan tables *)

\* C5: the scan tables are mutual inverses: the cell scan_8[i] of reverse_scan_8
\* holds scan8 index i with neighbor_left and neighbor_up both false, for every
\* valid i, and zigzag[unzigzag[i]] = i = unzigzag[zigzag[i]] for the tables of
\* 4, 16 and 64 entries.
Tab_MutualInverses ==
  /\ tab.table = "scan_8" =>
       tab.a.scan8_index = tab.i /\ ~tab.a.neighbor_left /\ ~tab.a.neighbor_up
  /\ tab.table = "zigzag" => tab.zu = tab.i /\ tab.uz = tab.i

\* The lookup of the last scan8 index, the chroma DC entry whose column also holds
\* neighbour cells with the same index.
Tab_MutualInverses_Witness ==
  /\ tab.table = "scan_8"
  /\ tab.i = 50
  /\ tab.a = R8(50, FALSE, FALSE)

-----------------------------------------------------------------------------
(* The model *)

\* The ranges the splits of two puts are compared at.
SplitRanges == {512, 1000, 65536}

\* probability_for_model_key(range, key) of a put: (range / total) * e->pos
SplitOf(range, handed) == probability_for_model_key(range, handed.pos, handed.neg)

\* C6: two fresh h264_model objects that receive the same hook calls and the
\* same symbols in the same contexts hand the arithmetic encoder the same
\* symbols with the same splits of every range, finish the same spans, and
\* neither stops on an assertion the other passes; so the bytes the encoder
\* makes of them are the same.
Model_Reproducible ==
  /\ mdl[1].aborted = mdl[2].aborted
  /\ mdl[1].finished = mdl[2].finished
  /\ Len(mdl[1].puts) = Len(mdl[2].puts)
  /\ \A k \in 1..Len(mdl[1].puts) :
       /\ mdl[1].puts[k].symbol = mdl[2].puts[k].symbol
       /\ \A range \in SplitRanges :
            SplitOf(range, mdl[1].puts[k]) = SplitOf(range, mdl[2].puts[k])

\* Two models whose uninitialised members started with different contents
\* have coded the count of nonzeros and the map of a sub-block that has a
\* left neighbour with nonzeros, from estimators that are no longer fresh.
Model_Reproducible_Witness ==
  /\ hook.pc = "sub"
  /\ mdl[1].mb_coord.scan8_index = 1
  /\ num_nonzeros(CurFrame(mdl[1]), mdl[1].mb_coord.mb_x, mdl[1].mb_coord.mb_y, 0) > 0
  /\ CurNumNonzeros(mdl[1]) > 0
  /\ \E k \in 1..Len(mdl[1].puts) : mdl[1].puts[k].pos + mdl[1].puts[k].neg > 2
  /\ \E key \in DOMAIN mdl[1].estimators : key \notin DOMAIN mdl[2].estimators
  /\ ~mdl[1].aborted

-----------------------------------------------------------------------------
(* Surrogate blocks and envelope blocks on the decompress path *)

\* The bytes read_packet makes of block i of the envelope once it has taken it
\* up: the literal, nothing for a skip_coded block, and for a CABAC block the
\* marker it was given followed by bytes 'X' up to the block's size.
RECURSIVE HandedOutUpTo(_)
HandedOutUpTo(i) ==
  IF i = 0 THEN <<>>
  ELSE HandedOutUpTo(i - 1) \o
       (IF Has(din[i].literal) THEN ValueOf(din[i].literal)
        ELSE IF Has(din[i].cabac)
        THEN dcm.blocks[i].surrogate_marker
               \o [k \in 1..(SizeOf(din[i]) - SURROGATE_MARKER_BYTES) |-> 88]
        ELSE <<>>)

\* C11: every surrogate block the decompressor hands to the decoder has the
\* size of its CABAC block, starts with the block's 8-byte marker and goes on
\* with bytes 0x58; a marker has no zero byte, and two CABAC blocks of a run
\* have different markers; a CABAC block with a size below 8 makes read_packet
\* throw.
Decompress_SurrogateBlocks ==
  /\ \A i \in 1..Len(din) :
       LET marker == dcm.blocks[i].surrogate_marker
       IN marker # <<>> =>
            /\ Len(marker) = 8
            /\ \A k \in 1..8 : marker[k] \in 1..255
            /\ \A j \in 1..Len(din) :
                 (j # i /\ dcm.blocks[j].surrogate_marker # <<>>) =>
                   dcm.blocks[j].surrogate_marker # marker
  /\ denv.error = "" =>
       denv.stream = HandedOutUpTo(dcm.read_index) \o Prefix(dcm.read_block, dcm.read_offset)
  /\ (dcm.read_block # <<>> /\ Has(din[dcm.read_index + 1].cabac)) =>
       /\ Len(dcm.read_block) = SizeOf(din[dcm.read_index + 1])
       /\ Prefix(dcm.read_block, 8) = dcm.blocks[dcm.read_index + 1].surrogate_marker
       /\ \A k \in 9..Len(dcm.read_block) : dcm.read_block[k] = 88
  /\ \A i \in 1..Len(din) :
       (Has(din[i].cabac) /\ Has(din[i].size) /\ SizeOf(din[i]) < 8
          /\ dcm.blocks[i].surrogate_marker # <<>>) =>
         /\ denv.pc = "failed"
         /\ denv.error = "Invalid coded block size for surrogate"
         /\ dcm.read_index = i - 1
         /\ dcm.read_block = <<>>

\* Two CABAC blocks have their markers, the surrogate of the first was handed
\* out whole and that of the second, a byte longer than its marker, in part.
Decompress_SurrogateBlocks_Witness ==
  /\ \E i, j \in 1..Len(din) :
       /\ i < j
       /\ dcm.blocks[i].surrogate_marker # <<>>
       /\ dcm.blocks[j].surrogate_marker # <<>>
       /\ dcm.read_index = j - 1
       /\ SizeOf(din[j]) = 9
  /\ dcm.read_offset > 0
  /\ dcm.read_block # <<>>

\* The number of variants present in an envelope block.
Variants(block) ==
  Cardinality({v \in {"literal", "cabac", "skip_coded"} : Has(block[v])})

\* What is wrong with an envelope block, "" when nothing is.
RejectionOf(block) ==
  IF Variants(block) # 1 THEN "Invalid input block: must have exactly one type"
  ELSE IF Has(block.cabac) /\ ~Has(block.size) THEN "CABAC block requires size field."
  ELSE IF Has(block.skip_coded) /\ ~ValueOf(block.skip_coded) THEN "Unknown input block type"
  ELSE ""

\* C12: a block of the envelope with no variant or more than one, a CABAC
\* block without size, and a block whose skip_coded is false are never read
\* past: no byte beyond the blocks before it reaches the decoder, the input
\* never ends for the decoder, and the read_packet call that comes to the
\* block throws the error of its defect and hands out nothing.
Decompress_RejectsMalformed ==
  [][ \A i \in 1..Len(din) : RejectionOf(din[i]) # "" =>
        /\ dcm'.read_index < i
        /\ ~denv'.eof
        /\ Len(denv'.stream) <= Len(HandedOutUpTo(i - 1))
        /\ (denv.pc = "decode" /\ dcm.read_index = i - 1
              /\ (denv'.stream # denv.stream \/ denv'.pc # denv.pc \/ dcm'.read_index # dcm.read_index)
              /\ denv'.open = denv.open /\ denv'.calls = denv.calls /\ ~denv'.returned) =>
             /\ denv'.pc = "failed"
             /\ denv'.error = RejectionOf(din[i])
             /\ denv'.stream = denv.stream
        /\ (\A j \in 1..(i - 1) : RejectionOf(din[j]) = "") =>
             (denv'.error \in {RejectionOf(din[k]) : k \in 1..Len(din)} \ {""} =>
                (denv'.error = RejectionOf(din[i]) /\ dcm'.read_index = i - 1))
    ]_vars

\* The bytes before a block whose skip_coded is false were handed out, and the
\* next read_packet threw.
Decompress_RejectsMalformed_Witness ==
  /\ \E i \in 1..Len(din) :
       /\ Has(din[i].skip_coded) /\ ~ValueOf(din[i].skip_coded)
       /\ dcm.read_index = i - 1
       /\ denv.stream = HandedOutUpTo(i - 1)
  /\ denv.stream # <<>>
  /\ denv.pc = "failed"
  /\ denv.error = "Unknown input block type"

\* The length of the span run() writes for a block: that of out_bytes, one more
\* when the block carries a length_parity that out_bytes does not have.
WrittenLen(block) ==
  IF block.length_parity # -1 /\ Len(block.out_bytes) % 2 # block.length_parity
  THEN Len(block.out_bytes) + 1
  ELSE Len(block.out_bytes)

\* Where the span of block i begins in what run() has written.
RECURSIVE WrittenBefore(_)
WrittenBefore(i) == IF i = 1 THEN 0 ELSE WrittenBefore(i - 1) + WrittenLen(dcm.blocks[i - 1])

\* C13: when run() has ended without error, the span it wrote for a CABAC
\* block that carries length_parity and last_byte has a length of that parity
\* and ends with last_byte; it is the decoded bytes with one byte appended when
\* their length had the other parity, and the decoded bytes with the last one
\* replaced otherwise.
Decompress_ParityCorrected ==
  denv.pc = "finished" =>
    /\ Len(denv.written) = WrittenBefore(Len(din) + 1)
    /\ \A i \in 1..Len(din) :
         (Has(din[i].cabac) /\ Has(din[i].length_parity) /\ Has(din[i].last_byte)
            /\ ValueOf(din[i].last_byte) # <<>>) =>
           LET decoded == dcm.blocks[i].out_bytes
               span == Sub(denv.written, WrittenBefore(i), WrittenLen(dcm.blocks[i]))
               wrong == Len(decoded) % 2 # ValueOf(din[i].length_parity)
           IN /\ Len(span) % 2 = ValueOf(din[i].length_parity)
              /\ span[Len(span)] = ValueOf(din[i].last_byte)[1]
              /\ Len(span) = IF wrong THEN Len(decoded) + 1 ELSE Len(decoded)
              /\ wrong => Prefix(span, Len(decoded)) = decoded
              /\ ~wrong => Prefix(span, Len(decoded) - 1) = Prefix(decoded, Len(decoded) - 1)

\* run() has ended; one CABAC block was decoded to a length of the wrong
\* parity and got a byte appended, another to the right parity.
Decompress_ParityCorrected_Witness ==
  /\ denv.pc = "finished"
  /\ \E i, j \in 1..Len(din) :
       /\ Has(din[i].cabac) /\ Has(din[j].cabac)
       /\ Len(dcm.blocks[i].out_bytes) % 2 # ValueOf(din[i].length_parity)
       /\ Len(dcm.blocks[j].out_bytes) % 2 = ValueOf(din[j].length_parity)


-----------------------------------------------------------------------------
(* The model on the compress path and on the decompress path *)

\* The model of the compressor and the model of the decompressor.
Compressing == mdl[1]
Decompressing == mdl[2]

\* The decompress side has made every call the compress side has made.
CaughtUp ==
  /\ Decompressing.side = "decompress"
  /\ Decompressing.pending = <<>>
  /\ Decompressing.diverged = ""
  /\ ~Decompressing.aborted /\ ~Compressing.aborted

\* C14: the requests the decompress side makes to the arithmetic decoder are,
\* in count, order and model key, the puts the compress side made to the
\* arithmetic encoder: request number k of a span has the key of put number k,
\* as many requests as puts have been made once the decompress side has made
\* the same calls, and no put and no request has the key of
\* PIP_SIGNIFICANCE_EOB.
Recode_SameRequests ==
  Decompressing.side = "decompress" =>
    /\ \A j \in 1..Len(Decompressing.gets) :
         LET g == Decompressing.gets[j]
         IN /\ g.at <= Len(Compressing.puts) => g.key = Compressing.puts[g.at].key
            /\ g.key[1] # <<"state", fake_context>>
    /\ \A k \in 1..Len(Compressing.puts) :
         Compressing.puts[k].key[1] # <<"state", fake_context>>
    /\ CaughtUp => Decompressing.at = Len(Compressing.puts)


\* The contexts of the bits of the count of nonzeros: STATE_FOR_NUM_NONZERO_BIT[0..5].
NumNonzeroContexts == {<<"model", i>> : i \in 0..5}

\* C15: every bit of the NZ prefix is decoded on the decompress side, in
\* finished_queueing called from begin_coding_type, under the model key
\* (context, param0, param1) under which the compress side encoded it in
\* finished_queueing called from end_coding_type.
Recode_SymmetricPrefix ==
  Decompressing.side = "decompress" =>
    \A j \in 1..Len(Decompressing.gets) :
      LET g == Decompressing.gets[j]
      IN (g.key[1] \in NumNonzeroContexts /\ g.at <= Len(Compressing.puts)) =>
           g.key = Compressing.puts[g.at].key


\* C16: the count of nonzeros the decompress side rebuilds from the 2, 4 or 6
\* bits of an NZ prefix is the count the compress side holds after writing that
\* prefix, for every sub-block size and every count.
Recode_PrefixRoundTrip ==
  (Decompressing.side = "decompress" /\ Decompressing.diverged = "") =>
    \A k \in 1..Len(Decompressing.prefixes) :
      k <= Len(Compressing.prefixes) => Decompressing.prefixes[k] = Compressing.prefixes[k]


\* C17: on either path, a symbol applied to the estimator while the walk state
\* is PIP_SIGNIFICANCE_EOB equals (num_nonzeros == nonzeros_observed) of the
\* current sub-block: the assertion of update_state_for_model_key never fails.
Recode_EobAsserted == \A i \in Instances : mdl[i].eob_asserted


-----------------------------------------------------------------------------
(* The queue of the compress side *)

\* The symbols of a buffer that are flags of significance, in arrival order: the
\* others are the last flags, which the replay meets in PIP_SIGNIFICANCE_EOB.
RECURSIVE SignificanceFlags(_)
SignificanceFlags(buffer) ==
  IF buffer = <<>> THEN <<>>
  ELSE IF Head(buffer).state = significant_coeff_ctx
  THEN <<Head(buffer).symbol>> \o SignificanceFlags(Tail(buffer))
  ELSE SignificanceFlags(Tail(buffer))

\* How many updates the estimators under the context have had.
RECURSIVE UpdatesUnder(_, _, _)
UpdatesUnder(m, context, keys) ==
  IF keys = {} THEN 0
  ELSE LET key == CHOOSE k \in keys : TRUE
       IN (IF key[1] = context THEN m.estimators[key].pos + m.estimators[key].neg - 2 ELSE 0)
          + UpdatesUnder(m, context, keys \ {key})

\* What the step from m to n, which ends the significance map, has done with
\* the queue: the puts it adds are the bits of the NZ prefix, then the flags of
\* significance buffered, in arrival order; every last flag has updated the
\* estimator of PIP_SIGNIFICANCE_EOB once; the buffer is empty and queueing off.
QueueReplayed(m, n) ==
  LET added == SubSeq(n.puts, Len(m.puts) + 1, Len(n.puts))
      flags == SignificanceFlags(m.symbol_buffer)
      nbits == serialized_bits(m)
  IN /\ Len(added) = nbits + Len(flags)
     /\ \A i \in 1..nbits : added[i].key[1] = <<"model", i - 1>>
     /\ \A i \in 1..Len(flags) :
          /\ added[nbits + i].symbol = flags[i]
          /\ added[nbits + i].key[1] = <<"model", 12>>
     /\ UpdatesUnder(n, fake_context, DOMAIN n.estimators)
          = UpdatesUnder(m, fake_context, DOMAIN m.estimators)
            + Len(m.symbol_buffer) - Len(flags)
     /\ n.symbol_buffer = <<>>
     /\ n.queueing_symbols = "PIP_UNKNOWN"

\* C18: on the compress side, between begin_coding_type(PIP_SIGNIFICANCE_MAP)
\* and the matching end_coding_type every symbol goes to the buffer and none
\* to the arithmetic encoder; end_coding_type puts the NZ prefix bits first,
\* then replays every buffered symbol once in arrival order, and leaves the
\* buffer empty and queueing off.
Queue_DeferredThenReplayed ==
  [][\A i \in Instances :
       (mdl[i].side = "compress" /\ hook.pc = "coding"
          /\ hook.ct = "PIP_SIGNIFICANCE_MAP" /\ ~mdl'[i].aborted) =>
         /\ mdl[i].queueing_symbols = "PIP_SIGNIFICANCE_MAP"
         /\ hook'.pc = "coding" =>
              /\ mdl'[i].puts = mdl[i].puts
              /\ Len(mdl'[i].symbol_buffer) = Len(mdl[i].symbol_buffer) + 1
              /\ SubSeq(mdl'[i].symbol_buffer, 1, Len(mdl[i].symbol_buffer))
                   = mdl[i].symbol_buffer
         /\ hook'.pc # "coding" => QueueReplayed(mdl[i], mdl'[i])]_vars

\* A significance map of two symbols or more has been replayed.
Queue_DeferredThenReplayed_Witness ==
  /\ hook.pc = "sub" /\ hook.stage = "levels"
  /\ \A i \in Instances :
       /\ mdl[i].side = "compress" /\ ~mdl[i].aborted
       /\ mdl[i].symbol_buffer = <<>>
       /\ Len(mdl[i].puts) >= 6
       /\ UpdatesUnder(mdl[i], fake_context, DOMAIN mdl[i].estimators) >= 1


-----------------------------------------------------------------------------
(* The estimators *)

\* The largest pos + neg an estimator under the key keeps: 0x50 under the keys
\* of PIP_SIGNIFICANCE_MAP, 0x60 under the others.
CapOf(m, key) == IF key[1] = significance_context(m) THEN 80 ELSE 96

\* An update as the specification tells it: one count is incremented and, if
\* the sum then exceeds the cap, both counts become their halves rounded up.
UpdatedEstimator(e, symbol, cap) ==
  LET pos == IF symbol = 1 THEN e.pos + 1 ELSE e.pos
      neg == IF symbol = 1 THEN e.neg ELSE e.neg + 1
  IN IF pos + neg > cap
     THEN [pos |-> (pos + 1) \div 2, neg |-> (neg + 1) \div 2]
     ELSE [pos |-> pos, neg |-> neg]

\* C19: every estimator of the model has pos >= 1 and neg >= 1, and pos + neg
\* at most 0x60, at most 0x50 if it is updated in PIP_SIGNIFICANCE_MAP; every
\* update increments one count and halves both, rounding up, if the sum then
\* exceeds the cap.
Estimator_Bounded ==
  /\ [](\A i \in Instances : \A key \in DOMAIN mdl[i].estimators :
          LET e == mdl[i].estimators[key]
          IN e.pos >= 1 /\ e.neg >= 1 /\ e.pos + e.neg <= CapOf(mdl[i], key))
  /\ [][\A i \in Instances : \A key \in DOMAIN mdl'[i].estimators :
          \/ estimator(mdl'[i], key) = estimator(mdl[i], key)
          \/ \E symbol \in 0..1 :
               estimator(mdl'[i], key)
                 = UpdatedEstimator(estimator(mdl[i], key), symbol, CapOf(mdl[i], key))]_vars

\* An estimator stands at its cap: the next update halves it.
Estimator_Bounded_Witness ==
  \E key \in DOMAIN mdl[1].estimators :
    LET e == mdl[1].estimators[key]
    IN e.pos + e.neg = CapOf(mdl[1], key) /\ e.pos > 1 /\ e.neg > 1


\* The ranges a share is asked for: min_range and the ranges next above it,
\* where the quotient by pos + neg is least, 1.0 and the ranges next to it, and
\* the largest range_t.
RecodedRanges ==
  {AddSmall(recoded_min_range, k) : k \in 0..MaxRangeOffset}
    \cup {AddSmall(recoded_fixed_one, k) : k \in {0, 1, 95, 96}}
    \cup {AddSmall(recoded_fixed_one, Limb - k) : k \in {1, 96}}
    \cup {<< Limb - 1, Limb - 1, Limb - 1, Limb - 1 >>}

\* C20: for every estimator (pos, neg) of the model and every range >= min_range
\* of the recoded coder (64-bit state, 8-bit digits) the share
\* (range / (pos + neg)) * pos is above 0 and below range.
Estimator_ShareInsideRange ==
  \A i \in Instances : \A key \in DOMAIN mdl[i].estimators :
    \A range \in RecodedRanges :
      LET e == mdl[i].estimators[key]
          r1 == probability_for_range_t(range, e.pos, e.neg)
      IN Less(<<0, 0, 0, 0>>, r1) /\ Less(r1, range)

\* An estimator that gives 1 the largest share it can have: 95 of 96.
Estimator_ShareInsideRange_Witness ==
  \E key \in DOMAIN mdl[1].estimators :
    mdl[1].estimators[key].pos = 95 /\ mdl[1].estimators[key].neg = 1

-----------------------------------------------------------------------------
(* Claims about the encoder between puts and at finish *)

\* C21: on construction and whenever put returns, min_range <= range, and
\* low + range fits the FixedPoint word: neither the sum nor any result
\* computed on the way has wrapped, every share handed to put being above 0 and
\* below range.
Encoder_RangeKept ==
  (acPc = "put" /\ ~enc.aborted) =>
    /\ min_range(acRatio) <= enc.range
    /\ enc.low + enc.range <= WordMod - 1
    /\ ~enc.wrapped

\* put has returned with a carry pending in low, behind a queue of deferred
\* digits that a carry has already gone into.
Encoder_RangeKept_Witness ==
  acPc = "put" /\ enc.low >= fixed_one /\ Len(enc.overflow) > 1 /\ enc.carried

\* C22: no carry is lost: a carry finds the overflow queue non-empty and stops
\* inside it, and both assertions of renormalize_and_emit_digit hold, in every
\* reachable state of the encoder, finish included.
Encoder_NoCarryLost ==
  /\ ~enc.lostCarry
  /\ ~enc.carryPast
  /\ enc.low_asserted
  /\ enc.range_asserted

\* The least k with base^k >= x: ceil(log_base(x)).
RECURSIVE CeilLog(_, _)
CeilLog(base, x) == IF x <= 1 THEN 0 ELSE 1 + CeilLog(base, (x + base - 1) \div base)

\* C23: the overflow queue never holds more than ceil(log_M(fixed_one)) digits,
\* M being the compressed digit base, whatever puts are made.
Encoder_QueueBounded ==
  Len(enc.overflow) <= CeilLog(compressed_digit_base(acRatio), fixed_one)

\* C24: the first finish, from any state puts have reached, returns (its loop
\* ends and no assertion stops it) with low = 0 and the overflow queue empty.
Encoder_FinishFlushes ==
  acPc = "finished" =>
    /\ ~enc.stuck /\ ~enc.aborted
    /\ enc.low = 0
    /\ enc.overflow = <<>>

-----------------------------------------------------------------------------
(* Claims about the walk of the significance map *)

\* frames[cur_frame].at(mb_x, mb_y).residual[scan8_index * 16 + z]
CurResidual(m, z) ==
  residual(CurFrame(m), m.mb_coord.mb_x, m.mb_coord.mb_y, ResidualIndex(m, z))

\* The number of coefficients of the current sub-block below position n that
\* are recorded as 1.
Recorded(m, n) == Cardinality({z \in 0..(n - 1) : CurResidual(m, z) = 1})

\* A step of the hooks that codes one flag of the significance map.
MapFlagCoded == hook.pc = "coding" /\ hook.ct = "PIP_SIGNIFICANCE_MAP" /\ hook'.nsym = hook.nsym + 1

\* What update_state_tracking(symbol) does to m in PIP_SIGNIFICANCE_MAP away
\* from the last position, n being the model after it.
MapFlagTracked(m, n, symbol) ==
  LET z == m.mb_coord.zigzag_index
  IN /\ CurResidual(n, z) = symbol
     /\ symbol = 1 =>
          /\ n.coding_type = "PIP_SIGNIFICANCE_EOB"
          /\ n.mb_coord.zigzag_index = z
          /\ n.nonzeros_observed = m.nonzeros_observed + 1
     /\ (symbol = 0 /\ z + 2 # m.sub_mb_size) =>
          /\ n.coding_type = "PIP_SIGNIFICANCE_MAP"
          /\ n.mb_coord.zigzag_index = z + 1
          /\ n.nonzeros_observed = m.nonzeros_observed
     /\ (symbol = 0 /\ z + 2 = m.sub_mb_size) =>
          /\ CurResidual(n, z + 1) = 1
          /\ n.coding_type = "PIP_UNREACHABLE"
          /\ n.nonzeros_observed = m.nonzeros_observed + 1
          /\ n.nonzeros_observed = Recorded(n, m.sub_mb_size)

EobFlagTracked(m, n, symbol) ==
  LET z == m.mb_coord.zigzag_index
  IN /\ n.coding_type # "PIP_SIGNIFICANCE_EOB"
     /\ symbol = 1 => n.coding_type = "PIP_UNREACHABLE"
     /\ (symbol = 0 /\ z + 2 # m.sub_mb_size) =>
          /\ n.coding_type = "PIP_SIGNIFICANCE_MAP"
          /\ n.mb_coord.zigzag_index = z + 1
     /\ (symbol = 0 /\ z + 2 = m.sub_mb_size) =>
          /\ n.coding_type = "PIP_UNREACHABLE"
          /\ CurResidual(n, z + 1) = 1

\* A step of the hooks that ends the significance map.
MapEnded == hook.pc = "coding" /\ hook.ct = "PIP_SIGNIFICANCE_MAP" /\ hook'.pc # "coding"

\* C26: in walk state PIP_SIGNIFICANCE_EOB one flag is consumed: symbol 1
\* leads to PIP_UNREACHABLE, symbol 0 back to PIP_SIGNIFICANCE_MAP with
\* zigzag_index advanced by one, or to PIP_UNREACHABLE when only the last
\* coefficient remains; and after end_coding_type(PIP_SIGNIFICANCE_MAP) the
\* num_nonzeros of the sub-block in the macroblock metadata is the number of
\* its coefficients recorded as 1.
Walk_EobFlag ==
  [][\A i \in Instances :
       /\ (MapFlagCoded /\ mdl[i].side = "compress" /\ ~mdl'[i].aborted
             /\ mdl[i].coding_type = "PIP_SIGNIFICANCE_EOB") =>
            EobFlagTracked(mdl[i], mdl'[i],
                           mdl'[i].symbol_buffer[Len(mdl'[i].symbol_buffer)].symbol)
       /\ (MapEnded /\ mdl[i].side = "compress" /\ ~mdl'[i].aborted) =>
            CurNumNonzeros(mdl'[i]) = Recorded(mdl'[i], mdl[i].sub_mb_size)]_vars

\* A map that ended after a last flag of 0 left only the last coefficient has
\* been counted: two nonzeros, the forced one among them.
Walk_EobFlag_Witness ==
  /\ hook.pc = "sub" /\ hook.stage = "levels"
  /\ mdl[1].side = "compress" /\ ~mdl[1].aborted
  /\ mdl[1].sub_mb_size = 4
  /\ CurNumNonzeros(mdl[1]) = 2
  /\ CurResidual(mdl[1], 1) = 0
  /\ CurResidual(mdl[1], 2) = 1
  /\ CurResidual(mdl[1], 3) = 1

-----------------------------------------------------------------------------
(* Claims about the key of the bits of the count of nonzeros *)

\* The component of a neighbour in the key of the bit of value cur_bit as the
\* key is documented: 2 for a neighbour that is not known, else whether its
\* count of nonzeros reaches cur_bit.
GeOf(known, nonzeros, cur_bit) == IF ~known THEN 2 ELSE IF nonzeros >= cur_bit THEN 1 ELSE 0

\* The count of nonzeros of the neighbouring sub-block a get_neighbor_sub_mb
\* result names.
NeighborNonzeros(m, neighbor) ==
  num_nonzeros(CurFrame(m), neighbor.coord.mb_x, neighbor.coord.mb_y, neighbor.coord.scan8_index)

\* param0 of the key of bit i is made of the neighbours' components as
\* documented.  The other frame buffer holds a macroblock at every coordinate
\* of the frame, so the previous-frame macroblock is taken as known.
NumNonzeroBitKeyed(m, i, param0) ==
  LET cur_bit == 2 ^ i
      left == get_neighbor_sub_mb(FALSE, m.sub_mb_size, m.mb_coord)
      above == get_neighbor_sub_mb(TRUE, m.sub_mb_size, m.mb_coord)
  IN /\ (param0 % 128) \div 64
          = GeOf(TRUE, num_nonzeros(PrevFrame(m), m.mb_coord.mb_x, m.mb_coord.mb_y,
                                          m.mb_coord.scan8_index), cur_bit)
     /\ (param0 % 384) \div 128
          = GeOf(left.has, IF left.has THEN NeighborNonzeros(m, left) ELSE 0, cur_bit)
     /\ param0 \div 384
          = GeOf(above.has, IF above.has THEN NeighborNonzeros(m, above) ELSE 0, cur_bit)

\* C27: in the key of every bit of the NZ prefix the components prev_frame_ge,
\* left_ge and above_ge are 2 exactly when the previous-frame macroblock, the
\* left sub-block or the above sub-block is not known, and otherwise 1 when
\* that neighbour's num_nonzeros is at least the value 1 << i of the bit and 0
\* when it is smaller.
Key_NeighbourComponents ==
  [][\A i \in Instances :
       (MapEnded /\ mdl[i].side = "compress" /\ ~mdl'[i].aborted) =>
         \A b \in 0..(serialized_bits(mdl[i]) - 1) :
           NumNonzeroBitKeyed(mdl[i], b, mdl'[i].puts[Len(mdl[i].puts) + 1 + b].key[2])]_vars

-----------------------------------------------------------------------------
(* Claims about the two frame buffers *)

\* A step of the hooks that announces a frame: hook' holds the call.
FrameSpecCalled == hook.pc = "start" /\ hook'.pc = "spec"

\* A frame buffer after bzero: no residual and no metadata set.
Zeroed(fb) == fb.nnz = <<>> /\ fb.coded = {} /\ fb.is_8x8 = {} /\ fb.residual = {}

\* C28: update_frame_spec called with the dimensions of the current buffer and
\* another frame_num rotates the buffers: the buffer that was current is the
\* previous one, residuals and metadata as they were, and the new current
\* buffer is all zero and carries the new frame_num; called with the same
\* frame_num and the same dimensions it changes neither buffer.
Frames_Rotate ==
  [][\A i \in Instances :
       (FrameSpecCalled /\ CurFrame(mdl[i]).width_ = hook'.width
                        /\ CurFrame(mdl[i]).height_ = hook'.height) =>
         IF hook'.frame_num # CurFrame(mdl[i]).frame_num_
         THEN /\ mdl'[i].cur_frame = 1 - mdl[i].cur_frame
              /\ PrevFrame(mdl'[i]) = CurFrame(mdl[i])
              /\ Zeroed(CurFrame(mdl'[i]))
              /\ CurFrame(mdl'[i]).frame_num_ = hook'.frame_num
              /\ CurFrame(mdl'[i]).width_ = hook'.width
              /\ CurFrame(mdl'[i]).height_ = hook'.height
         ELSE /\ mdl'[i].cur_frame = mdl[i].cur_frame
              /\ mdl'[i].frames = mdl[i].frames]_vars

\* A frame with a coded sub-block has become the previous frame, and the
\* current one is empty.
Frames_Rotate_Witness ==
  /\ hook.pc = "spec"
  /\ PrevFrame(mdl[1]).residual # {} /\ PrevFrame(mdl[1]).nnz # <<>>
  /\ PrevFrame(mdl[1]).coded # {}
  /\ PrevFrame(mdl[1]).frame_num_ # hook.frame_num
  /\ PrevFrame(mdl[1]).width_ = hook.width /\ PrevFrame(mdl[1]).height_ = hook.height
  /\ Zeroed(CurFrame(mdl[1]))
  /\ CurFrame(mdl[1]).frame_num_ = hook.frame_num

\* C29: after every update_frame_spec(frame_num, mb_width, mb_height), whatever
\* the dimensions of the calls before, both frame buffers are mb_width wide and
\* mb_height high, so that a macroblock coordinate of the current frame is an
\* index into the buffer of the previous frame.
Frames_SameDims ==
  hook.nhooks > 0 =>
    \A i \in Instances :
      /\ \A f \in 0..1 : /\ mdl[i].frames[f].width_ = hook.width
                         /\ mdl[i].frames[f].height_ = hook.height
      /\ \A x \in 0..(hook.width - 1), y \in 0..(hook.height - 1) :
           BlockAt(PrevFrame(mdl[i]), x, y)
             < PrevFrame(mdl[i]).width_ * PrevFrame(mdl[i]).height_

\* A third frame has been announced, two macroblocks wide, after frames of
\* other sizes.
Frames_SameDims_Witness ==
  /\ hook.pc = "spec" /\ hook.nhooks = 7
  /\ hook.width = 2 /\ hook.height = 1
  /\ mdl[1].cur_frame = 1
  /\ PrevFrame(mdl[1]).width_ = 2 /\ PrevFrame(mdl[1]).height_ = 1

-----------------------------------------------------------------------------
(* Claims about the neighbour of a sub-block *)

\* The sub-block adjacent to sub-block k in the layout of scan_8, above it or to
\* its left: the cell one row up or one column left, taken from the far side
\* of the plane when that leaves the four by four cells of the plane of k, which
\* is when the edge of the macroblock is crossed.
AdjacentInLayout(above, k) ==
  LET cell == scan_8[k]
      plane == k \div 16
      crossed == IF above THEN Row8(cell) = 1 + 5 * plane ELSE Col8(cell) = 4
      there == IF above THEN (IF crossed THEN cell + 3 * 8 ELSE cell - 8)
               ELSE (IF crossed THEN cell + 3 ELSE cell - 1)
  IN [crossed |-> crossed,
      scan8_index |-> CHOOSE j \in (16 * plane)..(16 * plane + 15) : scan_8[j] = there]

\* C30: for a sub-block that is not a DC block (scan8_index in 0..47)
\* get_neighbor returns false exactly when the adjacent sub-block is in a
\* macroblock outside the frame: a left query that crosses the macroblock edge
\* with mb_x = 0, an above query that crosses it with mb_y = 0; otherwise it
\* returns true with the scan8 index of the sub-block directly above or directly
\* to the left in the scan8 layout (for an 8x8 block, the first index of that
\* 8x8 block), and mb_x or mb_y one less only when the edge is crossed.
Neighbor_Adjacent ==
  (tab.table = "get_neighbor" /\ tab.input.scan8_index < 16 * 3) =>
    LET adjacent == AdjacentInLayout(tab.above, tab.input.scan8_index)
        outside == adjacent.crossed
                     /\ (IF tab.above THEN tab.input.mb_y = 0 ELSE tab.input.mb_x = 0)
    IN /\ tab.neighbor.has = ~outside
       /\ tab.neighbor.has =>
            /\ tab.neighbor.coord.scan8_index
                 = (IF tab.sub_mb_size >= 32 THEN (adjacent.scan8_index \div 4) * 4
                    ELSE adjacent.scan8_index)
            /\ tab.neighbor.coord.mb_x
                 = (IF adjacent.crossed /\ ~tab.above THEN tab.input.mb_x - 1
                    ELSE tab.input.mb_x)
            /\ tab.neighbor.coord.mb_y
                 = (IF adjacent.crossed /\ tab.above THEN tab.input.mb_y - 1
                    ELSE tab.input.mb_y)

\* The block above the first chroma block of the second row of macroblocks is
\* block 10 of that plane in the macroblock above.
Neighbor_Adjacent_Witness ==
  /\ tab.table = "get_neighbor" /\ tab.above
  /\ tab.input.scan8_index = 16 /\ tab.input.mb_x = 1 /\ tab.input.mb_y = 1
  /\ tab.neighbor.has
  /\ tab.neighbor.coord.scan8_index = 26
  /\ tab.neighbor.coord.mb_x = 1 /\ tab.neighbor.coord.mb_y = 0

\* The side of the sub-block of sub_mb_size coefficients, and its scan tables:
\* position in the scan to raster position, and back.
SideOf(sub_mb_size) == IF sub_mb_size > 16 THEN 8 ELSE IF sub_mb_size <= 4 THEN 2 ELSE 4
TableOf(sub_mb_size) == IF sub_mb_size > 16 THEN 64 ELSE IF sub_mb_size <= 4 THEN 4 ELSE 16

\* C31: for a sub-block that is not a DC block get_neighbor_coefficient turns
\* the zigzag index into its raster position in the 2x2, 4x4 or 8x8 sub-block,
\* returns false when that position is in the top row (above) or in the left
\* column (left), and else returns the zigzag index of the coefficient one row
\* above or one column to the left in the same sub-block.
Coefficient_Adjacent ==
  (tab.table = "get_neighbor_coefficient" /\ tab.input.scan8_index < 16 * 3) =>
    LET n == TableOf(tab.sub_mb_size)
        side == SideOf(tab.sub_mb_size)
        skipped == n - tab.sub_mb_size
        raster == unzigzag(n)[tab.input.zigzag_index + skipped]
        edge == IF tab.above THEN raster < side ELSE raster % side = 0
    IN /\ tab.neighbor.has = ~edge
       /\ tab.neighbor.has =>
            tab.neighbor.coord
              = [tab.input EXCEPT !.zigzag_index =
                   zigzag(n)[IF tab.above THEN raster - side ELSE raster - 1] - skipped]

\* C32: whenever get_neighbor or get_neighbor_coefficient returns true for an
\* input with 0 <= zigzag_index < sub_mb_size and a scan8_index of the tables,
\* the output has 0 <= zigzag_index < sub_mb_size and a scan8_index in 0..50:
\* the residual scan8_index * 16 + zigzag_index that fetch reads is one of the
\* sub-block addressed.
Neighbor_InBlock ==
  (tab.table \in {"get_neighbor", "get_neighbor_coefficient"} /\ tab.neighbor.has) =>
    /\ 0 <= tab.neighbor.coord.zigzag_index
    /\ tab.neighbor.coord.zigzag_index < tab.sub_mb_size
    /\ tab.neighbor.coord.scan8_index \in 0..50


-----------------------------------------------------------------------------
(* Claims about the stream the decompressor synthesises *)

\* The spans the decoder announced to the compressor that were recoded, each
\* with the index of its block in the envelope.
RecodedSpans ==
  { [q |-> cenv.spans[k].q, len |-> cenv.spans[k].len, block |-> CodedBlockIndex(comp.out, k)] :
      k \in { n \in 1..Len(cenv.spans) : IsRecodedBlock(comp.out[CodedBlockIndex(comp.out, n)]) } }

\* read_packet has handed out the whole envelope the compressor made.
WholeStreamHandedOut ==
  /\ cenv.pc = "compressed"
  /\ denv.pc # "idle"
  /\ denv.error = ""
  /\ dcm.read_index = Len(din)

\* C33: the stream read_packet of the decompressor has made of the whole
\* envelope is as long as the original file, has the file's byte at every
\* offset outside the recoded CABAC spans, and holds in each recoded span the
\* surrogate block of the span's envelope block; skip markers add no bytes.
Stream_MatchesSource ==
  WholeStreamHandedOut =>
    /\ Len(denv.stream) = Len(original_bytes)
    /\ \A o \in 0..(Len(denv.stream) - 1) :
         (\A span \in RecodedSpans : o < span.q \/ o >= span.q + span.len) =>
           denv.stream[o + 1] = original_bytes[o + 1]
    /\ \A span \in RecodedSpans :
         Sub(denv.stream, span.q, span.len)
           = make_surrogate_block(dcm.blocks[span.block].surrogate_marker,
                                  SizeOf(din[span.block])).block


\* The blocks of the envelope read_packet takes up without throwing: those
\* before the first block it rejects.
Readable(in) ==
  { i \in 1..Len(in) :
      \A j \in 1..i : RejectionOf(in[j]) = ""
                        /\ (Has(in[j].cabac) => SizeOf(in[j]) >= SURROGATE_MARKER_BYTES) }

RECURSIVE StreamOf(_, _)
\* The one stream of an envelope, up to block i: it depends on the envelope
\* alone, the marker of a CABAC block being that of its rank among them.
StreamOf(in, i) ==
  IF i = 0 THEN <<>>
  ELSE StreamOf(in, i - 1) \o
       (IF Has(in[i].literal) THEN ValueOf(in[i].literal)
        ELSE IF Has(in[i].cabac)
        THEN make_surrogate_block(MarkerOfBlock(in, i), SizeOf(in[i])).block
        ELSE <<>>)

\* The blocks read_packet has taken up and not rejected so far.
TakenUp == 1..(dcm.read_index + (IF dcm.read_block # <<>> THEN 1 ELSE 0))

\* C34: whatever sizes the caller asks read_packet of the decompressor for, the
\* bytes handed out so far are a prefix of one stream that the envelope alone
\* determines; a CABAC block has a marker when and only when it has been taken
\* up, the marker of its rank, and the sequence number has advanced once for
\* each; and a call that does not throw returns fewer bytes than asked for only
\* when it leaves the envelope exhausted.
Stream_ChunkingFree ==
  /\ denv.stream = Prefix(StreamOf(din, Cardinality(Readable(din))), Len(denv.stream))
  /\ \A i \in 1..Len(din) :
       /\ dcm.blocks[i].surrogate_marker # <<>> =>
            /\ Has(din[i].cabac)
            /\ i <= dcm.read_index + 1
            /\ dcm.blocks[i].surrogate_marker = MarkerOfBlock(din, i)
       /\ (Has(din[i].cabac) /\ i \in TakenUp) => dcm.blocks[i].surrogate_marker # <<>>
  /\ dcm.surrogate_marker_sequence_number
       = 1 + Cardinality({i \in 1..Len(din) : dcm.blocks[i].surrogate_marker # <<>>})
  /\ denv.pc = "decode" =>
       \A size \in ReadSizes :
         LET r == decompressor_read_packet(din, dcm, size)
         IN (r.error = "" /\ Len(r.bytes) < size) => r.d.read_index = Len(din)

\* The whole stream of the envelope of six blocks was handed out, and a further
\* call returned nothing.
Stream_ChunkingFree_Witness ==
  /\ denv.pc = "decode"
  /\ Len(din) = 6
  /\ dcm.read_index = Len(din)
  /\ Len(denv.stream) = 3 + 8 + 2 + 9 + 3
  /\ denv.eof


-----------------------------------------------------------------------------
(* Claims about the queue of coded blocks on the decompress path *)

\* No coded block is pending: every block from next_coded_block on that
\* read_packet has taken up is a literal.
NoCodedBlockPending ==
  \A i \in (dcm.next_coded_block + 1)..Len(din) : ~dcm.blocks[i].coded

\* The init_decoder hook of the decompressor is called in this step.
InitDecoderCalled == denv.pc = "decode" /\ Len(denv'.calls) = Len(denv.calls) + 1

\* C35: an init_cabac_decoder call on the decompress path that finds no coded
\* block pending, the envelope wholly consumed or not, ends with the error
\* 'Coded block expected, but not recorded in the compressed data.', no block
\* state past the end of blocks having been read.
Queue_ExhaustedRaises ==
  [][ (InitDecoderCalled /\ NoCodedBlockPending) =>
         /\ denv'.pc = "failed"
         /\ denv'.error = "Coded block expected, but not recorded in the compressed data."
         /\ dcm'.next_coded_block < Len(dcm.blocks)
    ]_vars


-----------------------------------------------------------------------------
(* Claims about the spans that are not recoded *)

\* What the coders and the queue of a sub-decoder have seen: the symbols put
\* and got, the estimators, and the symbols queued.
CoderSide(m) ==
  <<m.puts, m.gets, m.estimators, m.symbol_buffer, m.queueing_symbols, m.prefixes, m.finished>>

\* Instance i takes a begin_coding_type or end_coding_type call in this step:
\* the compress side when the decoder makes it, the decompress side when it
\* makes the call it had pending.
CodingTypeCall(i) ==
  IF mdl[i].side = "compress"
  THEN (hook.pc = "sub" /\ hook'.pc = "coding") \/ (hook.pc = "coding" /\ hook'.pc = "sub")
  ELSE /\ hook' = hook
       /\ Len(mdl[i].pending) = 1
       /\ mdl[i].pending[1].op \in {"begin_coding_type", "end_coding_type"}

\* C36: from the init_cabac_decoder call of a span that is not recoded to the
\* next init call, on the compress and on the decompress path, no symbol is
\* put to or got from the arithmetic coder, no estimator changes, no symbol is
\* queued, and a begin_coding_type or end_coding_type call leaves the model,
\* its walk state and both frame buffers as they were.
Skip_Bypassed ==
  [][ \A i \in Instances :
        (hook.skipped /\ ~mdl[i].has_model /\ ~mdl'[i].has_model) =>
          /\ CoderSide(mdl'[i]) = CoderSide(mdl[i])
          /\ CodingTypeCall(i) => mdl'[i] = [mdl[i] EXCEPT !.pending = <<>>]
    ]_vars

\* A span was recoded and left estimators and residuals behind, and in the span
\* after it, which is not recoded, both sides have been through the coding
\* types of a sub-block.
Skip_Bypassed_Witness ==
  /\ hook.skipped
  /\ hook.pc = "sub" /\ hook.stage = "end"
  /\ \A i \in Instances :
       /\ ~mdl[i].has_model
       /\ mdl[i].pending = <<>>
       /\ mdl[i].estimators # <<>>
       /\ mdl[i].finished = 1
       /\ mdl[i].sub_mb_size = 16
       /\ \E f \in 0..1 : mdl[i].frames[f].nnz # <<>>
  /\ mdl[1].puts # <<>>
  /\ mdl[2].gets # <<>>


-----------------------------------------------------------------------------
(* Claims about the lifetime of a sub-decoder *)

\* The blocks whose sub-decoder has been destroyed: on the compress side the
\* recoded blocks other than that of the live sub-decoder, all of them once run
\* has ended; on the decompress side the CABAC blocks matched to a call.
DestroyedCompress ==
  { i \in 1..Len(comp.out) :
      IsRecodedBlock(comp.out[i]) /\ (i # cenv.open \/ cenv.pc \in {"compressed", "aborted"}) }
DestroyedDecompress ==
  { denv.calls[k].index : k \in 1..Len(denv.calls) } \
    ({0} \cup (IF denv.pc = "decode" THEN {denv.open} ELSE {}))

\* C37: a sub-decoder is destroyed only when its span has been read to the end:
\* on the compress side its block has the cabac payload, so that every block
\* of the envelope run writes has exactly one variant, on the decompress side
\* its block is done, and no destructor assertion fails.
Span_CompletedBeforeDestroyed ==
  /\ cenv.pc # "aborted"
  /\ ~denv.aborted
  /\ \A i \in DestroyedCompress : Has(comp.out[i].cabac)
  /\ cenv.pc = "compressed" => \A i \in 1..Len(comp.out) : Variants(comp.out[i]) = 1
  /\ \A i \in DestroyedDecompress : Has(din[i].cabac) => dcm.blocks[i].done


-----------------------------------------------------------------------------
(* Claims about the range of the emit coder *)

-----------------------------------------------------------------------------
(* Claims about the coders of a sub-decoder *)

\* The places of the init_decoder calls among the calls a decompress side has
\* not made yet, and the model after the first k of those calls.
InitCalls(m) == {k \in 1..Len(m.pending) : m.pending[k].op = "init_decoder"}
AfterCalls(m, k) == Replay([m EXCEPT !.pending = SubSeq(@, 1, k)], mdl[1].puts)

\* The emit coder is as constructed after every init_decoder call the
\* decompress side makes, and the call leaves the estimators and both frame
\* buffers as the calls before it left them.
EmitCoderFresh ==
  \A i \in Instances : \A k \in InitCalls(mdl[i]) :
    LET before == AfterCalls(mdl[i], k - 1)
        after == AfterCalls(mdl[i], k)
    IN (~before.aborted /\ before.diverged = "") =>
         /\ after.cabac_encoder = NewCabacEncoder
         /\ after.cabac_encoder.range = 510 * Pow2(EmitWordBits - 10)
         /\ after.estimators = before.estimators
         /\ after.frames = before.frames

\* C38: creating the sub-decoder of a new CABAC span starts a fresh
\* arithmetic coder (low = 0, range = fixed_one, empty overflow queue, empty
\* output) on the compress path and a fresh emit coder on the decompress path,
\* and leaves every estimator count of the model and both frame buffers as the
\* span before left them.
Coder_FreshPerSpan ==
  [][ /\ (hook.pc = "spec" /\ hook'.pc = "slice") =>
           \A i \in Instances : mdl[i].side = "compress" =>
             /\ mdl'[i].encoder.low = 0
             /\ mdl'[i].encoder.range = fixed_one
             /\ mdl'[i].encoder.overflow = <<>>
             /\ mdl'[i].encoder.out = <<>>
             /\ mdl'[i].estimators = mdl[i].estimators
             /\ mdl'[i].frames = mdl[i].frames
      /\ EmitCoderFresh'
    ]_vars

\* The sub-decoder of a second span has just been created on the compress
\* side, whose encoder is fresh while the first span had symbols put, left
\* estimators and nonzero counts behind and was finished; the decompress side
\* is about to create its own, with an emit coder that has emitted the symbols
\* of the first span.
Coder_FreshPerSpan_Witness ==
  /\ hook.pc = "slice"
  /\ mdl[1].encoder = NewEncoder(TRUE)
  /\ mdl[1].finished = 1
  /\ Len(mdl[1].puts) >= 3
  /\ mdl[1].estimators # <<>>
  /\ \E f \in 0..1 : mdl[1].frames[f].nnz # <<>>
  /\ \E k \in InitCalls(mdl[2]) :
       LET before == AfterCalls(mdl[2], k - 1)
       IN /\ ~before.aborted /\ before.diverged = ""
          /\ before.finished = 1
          /\ before.cabac_encoder # NewCabacEncoder
          /\ before.estimators # <<>>
          /\ \E f \in 0..1 : before.frames[f].nnz # <<>>

=========================================================================
